---- MODULE Spec2Model ----
(***************************************************************************)
(* ShareTray: the donation lifecycle state machine (state_machine.py), the *)
(* application's repository (models_repo.py) and the matching engine and   *)
(* request handlers of the application (api_app.py).                       *)
(*                                                                         *)
(* The program holds TWO repositories: state_machine.py builds its own     *)
(* `repo` (donations, users, audit_logs) and transition_state always works *)
(* on that one; api_app.py works on the `repo` of models_repo.py and calls *)
(* transition_state of state_machine.py.  The variables prefixed sm_ are   *)
(* the fields of state_machine.repo, the others those of models_repo.repo. *)
(***************************************************************************)
EXTENDS Integers, Sequences, FiniteSets, TLC

VARIABLES
    sm_donations,   \* state_machine.repo.donations : id -> Donation
    sm_users,       \* state_machine.repo.users     : id -> {"id", "role"}
    sm_audit_logs,  \* state_machine.repo.audit_logs: id -> list of entries
    users,          \* models_repo.repo.users       : id -> User
    donations,      \* models_repo.repo.donations, in insertion order
    recipients,     \* models_repo.repo.recipients, in insertion order
    pickups,        \* models_repo.repo.pickups, in insertion order
    audit_logs,     \* models_repo.repo.audit_logs  : id -> list of entries
    last            \* the last call made and how it ended

sm_vars == <<sm_donations, sm_users, sm_audit_logs>>
app_vars == <<users, donations, recipients, pickups, audit_logs>>
vars == <<sm_donations, sm_users, sm_audit_logs,
          users, donations, recipients, pickups, audit_logs, last>>

----------------------------------------------------------------------------
(* Bounds of the model *)

\* total number of audit entries the state machine's repository may hold
MaxLog == 2

\* identifiers (strings in the program; uuid4 by default, or given by the caller)
DonationIds == {"d1", "d2"}
UserIds == {"u1"}

\* Python's None, for the Optional[str] fields
None == "None"

----------------------------------------------------------------------------
(* Enumerations *)

\* class DonationState(str, Enum)
DonationState == {"posted", "matched", "pickup_scheduled", "in_transit",
                  "delivered", "cancelled", "expired"}

\* class Role(str, Enum)
Role == {"donor", "recipient", "volunteer", "admin"}

\* the target states a caller may pass: api_app's TransitionRequest.new_state
\* is a plain str, so any string reaches transition_state
RequestedStates == DonationState \cup {"bogus"}

\* the role strings add_user(user_id, role: str) is called with
RoleStrings == {"volunteer", "root"}

Actors == {None} \cup UserIds
Notes == {None}

\* ALLOWED_TRANSITIONS with a cancelled donation allowed to be posted again
ALLOWED_TRANSITIONS_Reopen ==
    [s \in DonationState |->
        CASE s = "posted" -> {"matched", "cancelled", "expired"}
          [] s = "matched" -> {"pickup_scheduled", "cancelled", "expired"}
          [] s = "pickup_scheduled" -> {"in_transit", "cancelled"}
          [] s = "in_transit" -> {"delivered", "cancelled"}
          [] s = "cancelled" -> {"posted"}
          [] OTHER -> {}]

\* ALLOWED_TRANSITIONS with expiry and cancellation left open after delivery
ALLOWED_TRANSITIONS_AfterDelivery ==
    [s \in DonationState |->
        CASE s = "posted" -> {"matched", "cancelled", "expired"}
          [] s = "matched" -> {"pickup_scheduled", "cancelled", "expired"}
          [] s = "pickup_scheduled" -> {"in_transit", "cancelled"}
          [] s = "in_transit" -> {"delivered", "cancelled"}
          [] s = "delivered" -> {"cancelled", "expired"}
          [] OTHER -> {}]

\* ALLOWED_TRANSITIONS
ALLOWED_TRANSITIONS ==
    [s \in DonationState |->
        CASE s = "posted" -> {"matched", "cancelled", "expired"}
          [] s = "matched" -> {"pickup_scheduled", "cancelled", "expired"}
          [] s = "pickup_scheduled" -> {"in_transit", "cancelled"}
          [] s = "in_transit" -> {"delivered", "cancelled"}
          [] OTHER -> {}]

----------------------------------------------------------------------------
(* state_machine.py: the repository and transition_state *)

\* Donation(id=..., state=...) of state_machine.py
SmDonation(id, state) ==
    [id |-> id, state |-> state, matched_recipient_id |-> None, pickup_id |-> None]

\* InMemoryRepo.get_audit_logs_for_donation: self.audit_logs.get(id, [])
get_audit_logs_for_donation(logs, id) ==
    IF id \in DOMAIN logs THEN logs[id] ELSE <<>>

\* add_audit_log keeping only the newest entry of a donation
add_audit_log_Replace(logs, entry) ==
    [i \in DOMAIN logs \cup {entry.donation_id} |->
        IF i = entry.donation_id THEN <<entry>> ELSE logs[i]]

\* InMemoryRepo.add_audit_log, the same statement in state_machine.py and in
\* models_repo.py: self.audit_logs.setdefault(id, []).append(entry)
add_audit_log(logs, entry) ==
    [i \in DOMAIN logs \cup {entry.donation_id} |->
        IF i = entry.donation_id
        THEN Append(get_audit_logs_for_donation(logs, i), entry)
        ELSE logs[i]]

\* repo.get_user(actor_user_id)["role"]
\*     if actor_user_id and repo.get_user(actor_user_id) else None
\* (an empty string is falsy in Python)
actor_role(usrs, actor_user_id) ==
    IF actor_user_id # None /\ actor_user_id # "" /\ actor_user_id \in DOMAIN usrs
    THEN usrs[actor_user_id].role
    ELSE None

\* AuditLogEntry.actor_role : Optional[Role]; pydantic rejects any other
\* value when the entry is constructed (ValidationError, a ValueError)
ValidActorRole(role) == role = None \/ role \in Role

AuditLogEntry(donation_id, actor_user_id, role, old_state, new_state, notes) ==
    [donation_id |-> donation_id, actor_user_id |-> actor_user_id,
     actor_role |-> role, old_state |-> old_state, new_state |-> new_state,
     notes |-> notes]

\* notes or "idempotent transition"
NotesOrDefault(notes) ==
    IF notes = None \/ notes = "" THEN "idempotent transition" ELSE notes

\* the outcome of a call: how it ended and the repository it leaves
Outcome(how, dons, logs) ==
    [outcome |-> how, donations |-> dons, audit_logs |-> logs]

\* transition_state without the membership test of lines 106-108
transition_state_Unchecked(dons, usrs, logs, donation_id, new_state, actor_user_id, notes) ==
    IF donation_id \notin DOMAIN dons
    THEN Outcome("NotFound", dons, logs)
    ELSE
      LET old_state == dons[donation_id].state
          role == actor_role(usrs, actor_user_id)
      IN IF ~ValidActorRole(role)
         THEN Outcome("ValidationError", dons, logs)
         ELSE Outcome("ok", [dons EXCEPT ![donation_id].state = new_state],
                  add_audit_log(logs,
                      AuditLogEntry(donation_id, actor_user_id, role,
                                    old_state, new_state, notes)))

\* transition_state writing the audit entry of the attempt before it looks
\* the donation up
transition_state_LogsFirst(dons, usrs, logs, donation_id, new_state, actor_user_id, notes) ==
    IF donation_id \notin DOMAIN dons
    THEN Outcome("NotFound", dons,
             add_audit_log(logs,
                 AuditLogEntry(donation_id, actor_user_id, None, None, new_state, notes)))
    ELSE
      LET old_state == dons[donation_id].state
      IN IF new_state # old_state /\ new_state \notin ALLOWED_TRANSITIONS[old_state]
         THEN Outcome("InvalidTransition", dons, logs)
         ELSE Outcome("ok", [dons EXCEPT ![donation_id].state = new_state],
                  add_audit_log(logs,
                      AuditLogEntry(donation_id, actor_user_id, None,
                                    old_state, new_state, notes)))

\* transition_state(donation_id, new_state, actor_user_id, notes) on the
\* repository (dons, usrs, logs) of state_machine.py
transition_state(dons, usrs, logs, donation_id, new_state, actor_user_id, notes) ==
    IF donation_id \notin DOMAIN dons
    THEN Outcome("NotFound", dons, logs)
    ELSE
      LET old_state == dons[donation_id].state
          role == actor_role(usrs, actor_user_id)
      IN
      IF new_state = old_state
      THEN IF ~ValidActorRole(role)
           THEN Outcome("ValidationError", dons, logs)
           ELSE Outcome("ok", dons,
                    add_audit_log(logs,
                        AuditLogEntry(donation_id, actor_user_id, role,
                                      old_state, new_state, NotesOrDefault(notes))))
      ELSE IF new_state \notin ALLOWED_TRANSITIONS[old_state]
      THEN Outcome("InvalidTransition", dons, logs)
      ELSE
        LET dons2 == [dons EXCEPT ![donation_id].state = new_state]
        IN IF ~ValidActorRole(role)
           THEN Outcome("ValidationError", dons2, logs)
           ELSE Outcome("ok", dons2,
                    add_audit_log(logs,
                        AuditLogEntry(donation_id, actor_user_id, role,
                                      old_state, new_state, notes)))

\* number of audit entries held by state_machine.repo
RECURSIVE SumLen(_, _)
SumLen(logs, ids) ==
    IF ids = {} THEN 0
    ELSE LET i == CHOOSE x \in ids : TRUE
         IN Len(logs[i]) + SumLen(logs, ids \ {i})

TotalLog == SumLen(sm_audit_logs, DOMAIN sm_audit_logs)

----------------------------------------------------------------------------
(* Initial state: both repositories as constructed, empty *)

EmptyMap == [x \in {} |-> None]

Init ==
    /\ sm_donations = EmptyMap
    /\ sm_users = EmptyMap
    /\ sm_audit_logs = EmptyMap
    /\ users = EmptyMap
    /\ donations = <<>>
    /\ recipients = <<>>
    /\ pickups = <<>>
    /\ audit_logs = EmptyMap
    /\ last = [op |-> "init"]

----------------------------------------------------------------------------
(* Operations of state_machine.py *)

\* state_machine.repo.add_donation(Donation(id=id, state=state)):
\* self.donations[d.id] = d, which replaces a donation stored under the same
\* identifier (the audit log of the identifier is kept)
SmAddDonation(id, state) ==
    /\ sm_donations' = [i \in DOMAIN sm_donations \cup {id} |->
                           IF i = id THEN SmDonation(id, state) ELSE sm_donations[i]]
    /\ last' = [op |-> "add_donation"]
    /\ UNCHANGED <<sm_users, sm_audit_logs>>
    /\ UNCHANGED app_vars

\* state_machine.repo.update_donation(Donation(id=id, state=state)):
\* KeyError for an identifier that is not stored, else the stored donation
\* is replaced
SmUpdateDonation(id, state) ==
    /\ IF id \notin DOMAIN sm_donations
       THEN /\ last' = [op |-> "update_donation", outcome |-> "KeyError"]
            /\ UNCHANGED sm_donations
       ELSE /\ sm_donations' = [sm_donations EXCEPT ![id] = SmDonation(id, state)]
            /\ last' = [op |-> "update_donation", outcome |-> "ok"]
    /\ UNCHANGED <<sm_users, sm_audit_logs>>
    /\ UNCHANGED app_vars

\* state_machine.repo.add_audit_log(AuditLogEntry(donation_id=id,
\* old_state=old_state, new_state=new_state)) called directly: the entry is
\* appended whatever the repository holds
SmAddAuditLog(id, old_state, new_state) ==
    /\ sm_audit_logs' = add_audit_log(sm_audit_logs,
                             AuditLogEntry(id, None, None, old_state, new_state, None))
    /\ last' = [op |-> "add_audit_log"]
    /\ UNCHANGED <<sm_donations, sm_users>>
    /\ UNCHANGED app_vars

\* state_machine.repo.add_user(user_id, role): self.users[user_id] = {...},
\* which replaces the role stored under the same identifier
SmAddUser(user_id, role) ==
    /\ sm_users' = [i \in DOMAIN sm_users \cup {user_id} |->
                       IF i = user_id THEN [id |-> user_id, role |-> role]
                       ELSE sm_users[i]]
    /\ last' = [op |-> "add_user"]
    /\ UNCHANGED <<sm_donations, sm_audit_logs>>
    /\ UNCHANGED app_vars

\* a call of transition_state (directly, or through api_transition, which
\* turns the exception into an HTTP error)
TransitionState(donation_id, new_state, actor_user_id, notes) ==
    /\ LET r == transition_state(sm_donations, sm_users, sm_audit_logs,
                                 donation_id, new_state, actor_user_id, notes)
       IN /\ sm_donations' = r.donations
          /\ sm_audit_logs' = r.audit_logs
          /\ last' = [op |-> "transition_state", id |-> donation_id,
                      new_state |-> new_state, outcome |-> r.outcome]
    /\ UNCHANGED sm_users
    /\ UNCHANGED app_vars

\* the (old_state, new_state) pairs of the entries add_audit_log is called
\* with directly
DirectEntries == {<<"delivered", "posted">>}

\* the donations the repository is filled with: d1 in any state, and d2, a
\* posted donation no call names as its target
StoredDonations == ({"d1"} \X DonationState) \cup {<<"d2", "posted">>}

\* the donation the transition requests name; it may be stored or not
TransitionIds == {"d1"}

\* the calls of state_machine.py; the transition requests name no acting
\* user here (SpecActor has the acting users)
Next ==
    \/ \E d \in StoredDonations : SmAddDonation(d[1], d[2])
    \/ \E d \in StoredDonations : SmUpdateDonation(d[1], d[2])
    \/ \E u \in UserIds, r \in RoleStrings : SmAddUser(u, r)
    \/ /\ TotalLog < MaxLog
       /\ \E id \in TransitionIds, e \in DirectEntries : SmAddAuditLog(id, e[1], e[2])
    \/ /\ TotalLog < MaxLog
       /\ \E id \in TransitionIds, s \in RequestedStates, n \in Notes :
             TransitionState(id, s, None, n)

Spec == Init /\ [][Next]_vars

----------------------------------------------------------------------------
(* The claims about the state machine, checked under Spec; those that turn
   on the acting user are checked under SpecActor, the audit query under
   SpecAudit *)

\* the transition table as the specification states it
ClaimTable ==
    {<<"posted", "matched">>, <<"posted", "cancelled">>, <<"posted", "expired">>,
     <<"matched", "pickup_scheduled">>, <<"matched", "cancelled">>,
     <<"matched", "expired">>,
     <<"pickup_scheduled", "in_transit">>, <<"pickup_scheduled", "cancelled">>,
     <<"in_transit", "delivered">>, <<"in_transit", "cancelled">>}

TerminalStates == {"delivered", "cancelled", "expired"}

\* the step is a call of transition_state for the stored donation id
CalledFor(id) == last'.op = "transition_state" /\ last'.id = id

\* the step appends exactly one entry to the log of id, recording old -> new,
\* and leaves every other log alone
AppendsOne(id, old, new) ==
    LET before == get_audit_logs_for_donation(sm_audit_logs, id)
        after == get_audit_logs_for_donation(sm_audit_logs', id)
    IN /\ Len(after) = Len(before) + 1
       /\ SubSeq(after, 1, Len(before)) = before
       /\ after[Len(after)].old_state = old
       /\ after[Len(after)].new_state = new
       /\ after[Len(after)].donation_id = id
       /\ \A j \in DOMAIN sm_audit_logs' \ {id} :
             j \in DOMAIN sm_audit_logs /\ sm_audit_logs'[j] = sm_audit_logs[j]

\* C1: a call whose (from, to) is a pair of the transition table succeeds,
\* whatever the acting user: the state becomes `to` and exactly one entry
\* (from, to) is appended to the donation's log.
C1_ValidTransitionSucceeds ==
    [][\A id \in DOMAIN sm_donations :
          (CalledFor(id) /\ <<sm_donations[id].state, last'.new_state>> \in ClaimTable)
          => /\ last'.outcome = "ok"
             /\ sm_donations'[id].state = last'.new_state
             /\ AppendsOne(id, sm_donations[id].state, last'.new_state)]_vars

\* C2: a call whose target differs from the current state and is not an
\* allowed next state fails with an invalid-transition error and changes no
\* donation and no log.
C2_InvalidTransitionRejected ==
    [][\A id \in DOMAIN sm_donations :
          (/\ CalledFor(id)
           /\ last'.new_state # sm_donations[id].state
           /\ <<sm_donations[id].state, last'.new_state>> \notin ClaimTable)
          => /\ last'.outcome = "InvalidTransition"
             /\ sm_donations' = sm_donations
             /\ sm_audit_logs' = sm_audit_logs]_vars

\* a rejected call has happened while two donations were stored
C2_Witness ==
    /\ last.op = "transition_state"
    /\ last.outcome = "InvalidTransition"
    /\ last.id \in DOMAIN sm_donations
    /\ Cardinality(DOMAIN sm_donations) = 2
    /\ TotalLog > 0

\* C3: a call whose target is the donation's current state changes no field
\* of the donation and appends exactly one entry with old_state = new_state.
C3_IdempotentLogsOnce ==
    [][\A id \in DOMAIN sm_donations :
          (CalledFor(id) /\ last'.new_state = sm_donations[id].state)
          => /\ sm_donations' = sm_donations
             /\ AppendsOne(id, sm_donations[id].state, sm_donations[id].state)]_vars

\* the step is a call of transition_state
TransitionStep == last'.op = "transition_state"

\* C4: no call of transition_state, whatever donation and target it names,
\* changes the state of a donation that is in a terminal state.
C4_TerminalIsFinal ==
    [][TransitionStep =>
         \A id \in DOMAIN sm_donations :
            sm_donations[id].state \in TerminalStates
            => /\ id \in DOMAIN sm_donations'
               /\ sm_donations'[id].state = sm_donations[id].state]_vars

\* a call asked a donation in a terminal state to move to another state
C4_Witness ==
    /\ last.op = "transition_state"
    /\ last.id \in DOMAIN sm_donations
    /\ sm_donations[last.id].state \in TerminalStates
    /\ last.new_state \in DonationState \ {sm_donations[last.id].state}
    /\ get_audit_logs_for_donation(sm_audit_logs, last.id) # <<>>

\* C5: a call with an identifier under which no donation is stored fails with
\* a not-found error, appends no entry and changes no donation.
C5_UnknownDonationNotFound ==
    [][\A id \in DonationIds \ DOMAIN sm_donations :
          CalledFor(id)
          => /\ last'.outcome = "NotFound"
             /\ sm_donations' = sm_donations
             /\ sm_audit_logs' = sm_audit_logs]_vars

\* a call for an identifier that is not stored has failed, beside a stored one
C5_Witness ==
    /\ last.op = "transition_state"
    /\ last.outcome = "NotFound"
    /\ last.id \notin DOMAIN sm_donations
    /\ DOMAIN sm_donations # {}

\* C6: every call of transition_state that changes a donation's state
\* appends, in the same call, exactly one entry that records the change.
C6_ChangePairedWithEntry ==
    [][TransitionStep =>
         \A id \in DOMAIN sm_donations :
            (id \in DOMAIN sm_donations' /\ sm_donations'[id].state # sm_donations[id].state)
            => AppendsOne(id, sm_donations[id].state, sm_donations'[id].state)]_vars

\* C7: a stored donation's state is always one of the seven states, and every
\* change a transition request makes to it is a pair of the transition
\* table, whatever string the request carries as its target.
C7_StatesAndChangesLegal ==
    [][/\ \A id \in DOMAIN sm_donations' : sm_donations'[id].state \in DonationState
       /\ TransitionStep =>
             \A id \in DOMAIN sm_donations :
                (id \in DOMAIN sm_donations'
                    /\ sm_donations'[id].state # sm_donations[id].state)
                => <<sm_donations[id].state, sm_donations'[id].state>> \in ClaimTable]_vars

\* a call carrying a string that is no state has been made for a stored donation
C7_Witness ==
    /\ last.op = "transition_state"
    /\ last.id \in DOMAIN sm_donations
    /\ last.new_state \notin DonationState
    /\ \E id \in DOMAIN sm_audit_logs :
          \E k \in 1..Len(sm_audit_logs[id]) :
             sm_audit_logs[id][k].old_state # sm_audit_logs[id][k].new_state

\* api_audit_logs(donation_id) of api_app.py: GET /donations/{id}/audit_logs
\* reads the audit log of models_repo.repo
api_audit_logs(donation_id) ==
    get_audit_logs_for_donation(audit_logs, donation_id)

\* the entries of log `after` that follow those of log `before`
Appended(before, after) == SubSeq(after, Len(before) + 1, Len(after))

\* C17: the audit query of the application returns, for a donation, exactly
\* the entries the successful transition requests on it appended, in the
\* order they were appended: what the query returns after a successful
\* transition request is what it returned before the request followed by
\* the entries the request appended.
C17_AuditQueryReturnsTrail ==
    [][(last'.op = "transition_state" /\ last'.outcome = "ok") =>
         get_audit_logs_for_donation(audit_logs', last'.id)
            = api_audit_logs(last'.id)
              \o Appended(get_audit_logs_for_donation(sm_audit_logs, last'.id),
                          get_audit_logs_for_donation(sm_audit_logs', last'.id))
    ]_vars

----------------------------------------------------------------------------
(* models_repo.py: the application's repository *)

\* input catalogues of the application's operations
Weights == {1, 2}                          \* Donation.total_weight_kg
Capacities == {1, 3}                       \* Recipient.capacity_kg
RecipientIds == {"r1", "r2"}
NoLocation == <<>>                         \* location None (or empty: falsy)
\* a GeoJSON point {"type": "Point", "coordinates": [lon, lat]} is the pair
\* <<lon, lat>>; every point of the model lies on the meridian lon = 0,
\* latitudes are counted in steps of equal arc
IsGeoJSON(location) == Len(location) = 2
\* a dict of floats such as {"lat": 1.0, "lon": 0.0}: it has no key
\* "coordinates"
FlatLocation(lat, lon) == <<"lat", lat, "lon", lon>>
IsFlat(location) == Len(location) = 4
DonationLocations == {NoLocation, <<0, 0>>}
\* the locations a stored recipient can carry: GeoJSON points (assigned to
\* the attribute after construction) and a dict of floats
RecipientLocations == {<<0, 1>>, <<0, 2>>, FlatLocation(1, 0)}
Radii == {1, 2}                            \* max_search_km, in the same steps

\* total number of audit entries, matching runs included
MaxMatchLog == 3

\* the outcome of a constructor whose arguments pydantic refuses
ValidationError == [error |-> "ValidationError"]
IsError(obj) == "error" \in DOMAIN obj

\* Donation(...) of models_repo.py: donor_id is a required str (None is
\* refused), state a DonationState; location is Optional[Dict[str, Any]],
\* which takes a GeoJSON point as well as a dict of floats
Donation(id, donor_id, total_weight_kg, location, state) ==
    IF donor_id # None /\ state \in DonationState
    THEN [id |-> id, donor_id |-> donor_id, total_weight_kg |-> total_weight_kg,
          location |-> location, state |-> state,
          matched_recipient_id |-> None, pickup_id |-> None]
    ELSE ValidationError

\* location: Optional[Dict[str, float]] of User and Recipient: None and a
\* dict of floats validate, a GeoJSON point (a string under "type", a list
\* under "coordinates") does not
ValidFloatDict(location) == location = NoLocation \/ IsFlat(location)

\* Recipient(...) of models_repo.py
Recipient(id, capacity_kg, location) ==
    IF ValidFloatDict(location)
    THEN [id |-> id, capacity_kg |-> capacity_kg, location |-> location]
    ELSE ValidationError

\* obj.location = location: the models do not validate on assignment
WithLocation(obj, location) == [obj EXCEPT !.location = location]

\* keys of a dict kept as the sequence of its values, in insertion order
Keys(dict) == {dict[i].id : i \in 1..Len(dict)}

\* position of key id in the dict
IndexOf(dict, id) == CHOOSE i \in 1..Len(dict) : dict[i].id = id

\* self.donations[d.id] = d : a new key is appended, an existing key keeps
\* its position and gets the new value
DictSet(dict, obj) ==
    IF obj.id \in Keys(dict)
    THEN [dict EXCEPT ![IndexOf(dict, obj.id)] = obj]
    ELSE Append(dict, obj)

\* InMemoryRepo.list_open_donations: positions of the donations in state POSTED
RECURSIVE list_open_donations(_, _)
list_open_donations(dons, i) ==
    IF i > Len(dons) THEN <<>>
    ELSE IF dons[i].state = "posted"
         THEN <<i>> \o list_open_donations(dons, i + 1)
         ELSE list_open_donations(dons, i + 1)

----------------------------------------------------------------------------
(* api_app.py: the matching engine *)

Abs(x) == IF x < 0 THEN -x ELSE x

\* haversine_distance(lat1, lon1, lat2, lon2): on one meridian (lon1 = lon2)
\* a = sin^2(dphi/2) and R*2*atan2(sqrt(a), sqrt(1-a)) = R*|dphi|, the
\* difference of the latitudes; the unit is R times one step of latitude
haversine_distance(lat1, lon1, lat2, lon2) == Abs(lat2 - lat1)

\* distance of donation d to recipient r, lines 122 and 127-128:
\* coordinates[1] is the latitude, coordinates[0] the longitude
DistanceTo(d, r) ==
    haversine_distance(d.location[2], d.location[1], r.location[2], r.location[1])

\* lines 122 and 127: location["coordinates"] raises KeyError on a location
\* without that key, for the donation itself and for every recipient the
\* loop reads the location of (capacity sufficient, location not empty)
NoCoordinates(d, recs) ==
    \/ IsFlat(d.location)
    \/ \E i \in 1..Len(recs) :
          /\ recs[i].capacity_kg >= d.total_weight_kg
          /\ IsFlat(recs[i].location)

\* the candidates taken without the test of the distance against the radius
Candidates_AnyDistance(d, recs, max_search_km) ==
    {i \in 1..Len(recs) :
        /\ recs[i].capacity_kg >= d.total_weight_kg
        /\ recs[i].location # NoLocation}

\* lines 124-130: the positions of the recipients that qualify for d
Candidates(d, recs, max_search_km) ==
    {i \in 1..Len(recs) :
        /\ recs[i].capacity_kg >= d.total_weight_kg
        /\ recs[i].location # NoLocation
        /\ DistanceTo(d, recs[i]) <= max_search_km}

\* the choice among the candidates with the last recipient, in iteration
\* order, taken at the least distance
Chosen_LastWins(d, recs, cands) ==
    CHOOSE i \in cands :
        \A j \in cands :
            \/ DistanceTo(d, recs[i]) < DistanceTo(d, recs[j])
            \/ DistanceTo(d, recs[i]) = DistanceTo(d, recs[j]) /\ i >= j

\* lines 132-133: candidates.sort(key=distance) is stable, candidates[0] is
\* the first recipient, in iteration order, at the least distance
Chosen(d, recs, cands) ==
    CHOOSE i \in cands :
        \A j \in cands :
            \/ DistanceTo(d, recs[i]) < DistanceTo(d, recs[j])
            \/ DistanceTo(d, recs[i]) = DistanceTo(d, recs[j]) /\ i <= j

\* the capacities the recipients are tested with for the next donation,
\* read from a copy of the recipients taken when the run started
TestedRecipients_Stale(start, current) == start

\* the recipients a donation's candidates are computed from:
\* repo.list_recipients() returns the stored objects, which carry the
\* decrements of line 137 made earlier in the run
TestedRecipients(start, current) == current

\* one state of the loop of greedy_match_local
MatchState(dons, recs, smd, sml, assigned, trace, outcome) ==
    [donations |-> dons, recipients |-> recs, sm_donations |-> smd,
     sm_audit_logs |-> sml, assigned |-> assigned, trace |-> trace,
     outcome |-> outcome]

\* lines 120-139 with a donation that has no location taken to lie at the
\* origin instead of being skipped
MatchOne_NoSkip(st, start, smu, j, max_search_km) ==
    LET d == IF st.donations[j].location = NoLocation
             THEN [st.donations[j] EXCEPT !.location = <<0, 0>>]
             ELSE st.donations[j]
        tested == TestedRecipients(start, st.recipients)
        cands == Candidates(d, tested, max_search_km)
        seen == [i \in 1..Len(tested) |-> tested[i].capacity_kg]
    IN
    IF d.location = NoLocation THEN st
    ELSE IF NoCoordinates(d, tested) THEN [st EXCEPT !.outcome = "KeyError"]
    ELSE IF cands = {}
    THEN [st EXCEPT !.trace = Append(@, [id |-> d.id, need |-> d.total_weight_kg,
                                         seen |-> seen, chosen |-> None])]
    ELSE
      LET c == Chosen(d, tested, cands)
          chosen == st.recipients[c]
          dons2 == [st.donations EXCEPT ![j].matched_recipient_id = chosen.id]
          t == transition_state(st.sm_donations, smu, st.sm_audit_logs,
                                d.id, "matched", None, "auto-match")
          trace2 == Append(st.trace, [id |-> d.id, need |-> d.total_weight_kg,
                                      seen |-> seen, chosen |-> chosen.id])
      IN
      IF t.outcome # "ok"
      THEN MatchState(dons2, st.recipients, t.donations, t.audit_logs,
                      st.assigned, trace2, t.outcome)
      ELSE MatchState(dons2,
                      [st.recipients EXCEPT
                          ![c].capacity_kg = @ - d.total_weight_kg],
                      t.donations, t.audit_logs,
                      Append(st.assigned, <<d.id, chosen.id>>), trace2, "ok")

\* lines 120-139 for the donation at position j
MatchOne(st, start, smu, j, max_search_km) ==
    LET d == st.donations[j]
        tested == TestedRecipients(start, st.recipients)
        cands == Candidates(d, tested, max_search_km)
        seen == [i \in 1..Len(tested) |-> tested[i].capacity_kg]
    IN
    IF d.location = NoLocation THEN st
    ELSE IF NoCoordinates(d, tested) THEN [st EXCEPT !.outcome = "KeyError"]
    ELSE IF cands = {}
    THEN [st EXCEPT !.trace = Append(@, [id |-> d.id, need |-> d.total_weight_kg,
                                         seen |-> seen, chosen |-> None])]
    ELSE
      LET c == Chosen(d, tested, cands)
          chosen == st.recipients[c]
          dons2 == [st.donations EXCEPT ![j].matched_recipient_id = chosen.id]
          t == transition_state(st.sm_donations, smu, st.sm_audit_logs,
                                d.id, "matched", None, "auto-match")
          trace2 == Append(st.trace, [id |-> d.id, need |-> d.total_weight_kg,
                                      seen |-> seen, chosen |-> chosen.id])
      IN
      IF t.outcome # "ok"
      THEN MatchState(dons2, st.recipients, t.donations, t.audit_logs,
                      st.assigned, trace2, t.outcome)
      ELSE MatchState(dons2,
                      [st.recipients EXCEPT
                          ![c].capacity_kg = @ - d.total_weight_kg],
                      t.donations, t.audit_logs,
                      Append(st.assigned, <<d.id, chosen.id>>), trace2, "ok")

\* the loop over the open donations; an exception ends the run
RECURSIVE MatchLoop(_, _, _, _, _, _)
MatchLoop(st, start, smu, open, k, max_search_km) ==
    IF k > Len(open) \/ st.outcome # "ok" THEN st
    ELSE MatchLoop(MatchOne(st, start, smu, open[k], max_search_km),
                   start, smu, open, k + 1, max_search_km)

\* greedy_match_local(max_search_km) on both repositories
greedy_match_local(dons, recs, smd, smu, sml, max_search_km) ==
    MatchLoop(MatchState(dons, recs, smd, sml, <<>>, <<>>, "ok"),
              recs, smu, list_open_donations(dons, 1), 1, max_search_km)

----------------------------------------------------------------------------
(* Operations of the application *)

\* r = Recipient(id=id, capacity_kg=capacity_kg); r.location = location:
\* the constructor validates, the assignment does not
RecipientAt(id, capacity_kg, location) ==
    WithLocation(Recipient(id, capacity_kg, NoLocation), location)

\* repo.add_recipient(r) of models_repo.py: self.recipients[r.id] = r, which
\* replaces the recipient stored under an identifier in use
AddRecipient(id, capacity_kg, location) ==
    /\ recipients' = DictSet(recipients, RecipientAt(id, capacity_kg, location))
    /\ last' = [op |-> "add_recipient"]
    /\ UNCHANGED <<users, donations, pickups, audit_logs>>
    /\ UNCHANGED sm_vars

\* repo.update_recipient(r) of models_repo.py: KeyError for an identifier
\* not stored, otherwise the stored recipient is replaced
UpdateRecipient(id, capacity_kg, location) ==
    /\ IF id \notin Keys(recipients)
       THEN /\ last' = [op |-> "update_recipient", outcome |-> "KeyError"]
            /\ UNCHANGED recipients
       ELSE /\ recipients' = DictSet(recipients,
                                  RecipientAt(id, capacity_kg, location))
            /\ last' = [op |-> "update_recipient", outcome |-> "ok"]
    /\ UNCHANGED <<users, donations, pickups, audit_logs>>
    /\ UNCHANGED sm_vars

\* repo.add_donation(Donation(...)) of models_repo.py for a posted donation:
\* the constructor refuses a donation without donor before anything is
\* stored; self.donations[d.id] = d replaces the donation stored under an
\* identifier in use
AddDonation(id, donor_id, total_weight_kg, location) ==
    /\ LET d == Donation(id, donor_id, total_weight_kg, location, "posted")
       IN IF IsError(d)
          THEN /\ last' = [op |-> "add_donation", outcome |-> "ValidationError"]
               /\ UNCHANGED donations
          ELSE /\ donations' = DictSet(donations, d)
               /\ last' = [op |-> "add_donation"]
    /\ UNCHANGED <<users, recipients, pickups, audit_logs>>
    /\ UNCHANGED sm_vars

\* repo.update_donation(Donation(...)) of models_repo.py for a posted
\* donation: the constructor refuses a donation without donor; KeyError for
\* an identifier not stored, otherwise the stored donation is replaced
UpdateDonation(id, donor_id, total_weight_kg, location) ==
    /\ LET d == Donation(id, donor_id, total_weight_kg, location, "posted")
       IN IF IsError(d)
          THEN /\ last' = [op |-> "update_donation", outcome |-> "ValidationError"]
               /\ UNCHANGED donations
          ELSE IF id \notin Keys(donations)
          THEN /\ last' = [op |-> "update_donation", outcome |-> "KeyError"]
               /\ UNCHANGED donations
          ELSE /\ donations' = DictSet(donations, d)
               /\ last' = [op |-> "update_donation", outcome |-> "ok"]
    /\ UNCHANGED <<users, recipients, pickups, audit_logs>>
    /\ UNCHANGED sm_vars

\* total number of audit entries of the application's repository
AppTotalLog == SumLen(audit_logs, DOMAIN audit_logs)

\* repo.add_audit_log(AuditLogEntry(donation_id=id, old_state=old_state,
\* new_state=new_state)) of models_repo.py called directly: the entry is
\* appended whatever the repository holds; no code of the application calls
\* it
AddAuditLog(id, old_state, new_state) ==
    /\ audit_logs' = add_audit_log(audit_logs,
                          AuditLogEntry(id, None, None, old_state, new_state, None))
    /\ last' = [op |-> "add_audit_log"]
    /\ UNCHANGED <<users, donations, recipients, pickups>>
    /\ UNCHANGED sm_vars

\* run_matching(req): POST /match/run; the exception of a failed
\* transition leaves the handler (HTTP 500), what was written stays
RunMatching(max_search_km) ==
    /\ TotalLog + Len(list_open_donations(donations, 1)) <= MaxMatchLog
    /\ LET r == greedy_match_local(donations, recipients, sm_donations,
                                   sm_users, sm_audit_logs, max_search_km)
       IN /\ donations' = r.donations
          /\ recipients' = r.recipients
          /\ sm_donations' = r.sm_donations
          /\ sm_audit_logs' = r.sm_audit_logs
          /\ last' = [op |-> "greedy_match_local", outcome |-> r.outcome,
                      max_search_km |-> max_search_km,
                      before |-> [donations |-> donations, recipients |-> recipients],
                      assigned |-> r.assigned, trace |-> r.trace]
    /\ UNCHANGED <<sm_users, users, pickups, audit_logs>>

\* the recipients (id, capacity_kg, location) and the donations
\* (id, donor_id, total_weight_kg, location) the callers of the matching
\* engine store
MatchRecipients ==
    {<<"r1", 1, <<0, 1>>>>, <<"r1", 1, FlatLocation(1, 0)>>,
     <<"r2", 3, <<0, 1>>>>, <<"r2", 3, <<0, 2>>>>}
MatchDonations ==
    {<<"d1", "u1", 1, NoLocation>>, <<"d1", "u1", 1, <<0, 0>>>>,
     <<"d1", "u1", 2, <<0, 0>>>>, <<"d2", "u1", 1, <<0, 0>>>>,
     <<"d2", "u1", 1, FlatLocation(0, 0)>>}

MatchNext ==
    \/ \E r \in MatchRecipients : AddRecipient(r[1], r[2], r[3])
    \/ \E r \in MatchRecipients : UpdateRecipient(r[1], r[2], r[3])
    \/ \E d \in MatchDonations : AddDonation(d[1], d[2], d[3], d[4])
    \/ \E id \in DonationIds : SmAddDonation(id, "posted")
    \/ \E km \in Radii : RunMatching(km)

SpecMatch == Init /\ [][MatchNext]_vars

----------------------------------------------------------------------------
(* The claims about the matching engine, checked under SpecMatch *)

IsMatchRun == last.op = "greedy_match_local"

\* what the run has deducted from recipient rid before its k-th examined donation
RECURSIVE Deducted(_, _, _, _)
Deducted(trace, assigned, k, rid) ==
    IF k <= 1 THEN 0
    ELSE Deducted(trace, assigned, k - 1, rid)
         + (IF trace[k - 1].chosen = rid
               /\ \E a \in 1..Len(assigned) : assigned[a] = <<trace[k - 1].id, rid>>
            THEN trace[k - 1].need ELSE 0)

\* C9: no recipient's capacity is ever negative, and the capacity a recipient
\* is tested with for a donation is its capacity when the run started less
\* the weights the run has assigned to it before that donation.
C9_CapacityNeverNegative ==
    /\ \A i \in 1..Len(recipients) : recipients[i].capacity_kg >= 0
    /\ IsMatchRun =>
          \A k \in 1..Len(last.trace) :
             \A i \in 1..Len(last.before.recipients) :
                last.trace[k].seen[i] =
                    last.before.recipients[i].capacity_kg
                    - Deducted(last.trace, last.assigned, k,
                               last.before.recipients[i].id)

\* in a run that returned, a recipient took one donation and was then
\* refused a later one for the capacity it had left
C9_Witness ==
    /\ IsMatchRun
    /\ last.outcome = "ok"
    /\ \E k \in 2..Len(last.trace) :
          \E i \in 1..Len(last.before.recipients) :
             /\ last.trace[k - 1].chosen = last.before.recipients[i].id
             /\ last.before.recipients[i].capacity_kg >= last.trace[k].need
             /\ last.trace[k].seen[i] < last.trace[k].need
             /\ last.trace[k].chosen # last.before.recipients[i].id
             /\ recipients[i].capacity_kg >= 0

\* distance of two points of one meridian, in steps of latitude
ClaimDistance(p, q) == IF p[2] >= q[2] THEN p[2] - q[2] ELSE q[2] - p[2]

\* the recipients that have the capacity left for the k-th examined donation
\* of the run and lie within the radius
Eligible(k) ==
    LET d == last.before.donations[IndexOf(last.before.donations, last.trace[k].id)]
    IN {i \in 1..Len(last.before.recipients) :
           /\ last.trace[k].seen[i] >= d.total_weight_kg
           /\ last.before.recipients[i].location # NoLocation
           /\ ClaimDistance(d.location, last.before.recipients[i].location)
                 <= last.max_search_km}

\* the recipients at the least distance among those eligible for the k-th
\* examined donation
NearestEligible(k) ==
    LET d == last.before.donations[IndexOf(last.before.donations, last.trace[k].id)]
    IN {i \in Eligible(k) :
           \A j \in Eligible(k) :
              ClaimDistance(d.location, last.before.recipients[i].location)
              <= ClaimDistance(d.location, last.before.recipients[j].location)}

\* C10: in a matching run every posted donation with a location is examined
\* and, if some recipient has the capacity left and is within the radius, is
\* assigned (the pair is in the run's result) to such a recipient at the
\* least distance, never to a closer one without the capacity.
C10_AssignedToNearest ==
    IsMatchRun =>
       \A j \in 1..Len(last.before.donations) :
          (/\ last.before.donations[j].state = "posted"
           /\ last.before.donations[j].location # NoLocation)
          => \E k \in 1..Len(last.trace) :
                /\ last.trace[k].id = last.before.donations[j].id
                /\ Eligible(k) # {} =>
                      \E i \in NearestEligible(k) :
                         /\ last.trace[k].chosen = last.before.recipients[i].id
                         /\ \E a \in 1..Len(last.assigned) :
                               last.assigned[a] =
                                   <<last.trace[k].id, last.before.recipients[i].id>>

\* the step is a matching run
MatchRunStep == last'.op = "greedy_match_local"

\* the pair <<id, rid>> is in the result of the run of this step
Reported(id, rid) ==
    \E a \in 1..Len(last'.assigned) : last'.assigned[a] = <<id, rid>>

\* C11: a matching run never selects for a donation a recipient farther from
\* it than the radius, whatever the recipient's capacity; a posted donation
\* whose every recipient with the capacity is farther than the radius is in
\* no pair of the result, is left as it was (state posted) in both
\* repositories and gets no audit entry.
C11_RadiusRespected ==
    [][MatchRunStep =>
         /\ \A k \in 1..Len(last'.trace) :
               \A i \in 1..Len(recipients) :
                  (\/ last'.trace[k].chosen = recipients[i].id
                   \/ Reported(last'.trace[k].id, recipients[i].id))
                  => ClaimDistance(
                        donations[IndexOf(donations, last'.trace[k].id)].location,
                        recipients[i].location) <= last'.max_search_km
         /\ \A j \in 1..Len(donations) :
               (/\ donations[j].state = "posted"
                /\ donations[j].location # NoLocation
                /\ \A i \in 1..Len(recipients) :
                      recipients[i].capacity_kg >= donations[j].total_weight_kg
                      => ClaimDistance(donations[j].location, recipients[i].location)
                            > last'.max_search_km)
               => /\ \A i \in 1..Len(recipients) :
                        ~Reported(donations[j].id, recipients[i].id)
                  /\ donations'[j] = donations[j]
                  /\ get_audit_logs_for_donation(sm_audit_logs', donations[j].id)
                        = get_audit_logs_for_donation(sm_audit_logs, donations[j].id)
                  /\ donations[j].id \in DOMAIN sm_donations
                        => sm_donations'[donations[j].id] = sm_donations[donations[j].id]
    ]_vars

\* a run has examined a donation and selected no recipient for it while a
\* recipient with the capacity for it stood beyond the radius, and the same
\* run has assigned another donation
C11_Witness ==
    /\ IsMatchRun
    /\ last.assigned # <<>>
    /\ \E k \in 1..Len(last.trace) :
          /\ last.trace[k].chosen = None
          /\ donations[IndexOf(donations, last.trace[k].id)].state = "posted"
          /\ \E i \in 1..Len(last.before.recipients) :
                /\ last.trace[k].seen[i] >= last.trace[k].need
                /\ ClaimDistance(
                      last.before.donations[
                          IndexOf(last.before.donations, last.trace[k].id)].location,
                      last.before.recipients[i].location) > last.max_search_km

\* the weight of the first k pairs of a result that name recipient rid
RECURSIVE AssignedWeight(_, _, _, _)
AssignedWeight(assigned, dons, rid, k) ==
    IF k = 0 THEN 0
    ELSE AssignedWeight(assigned, dons, rid, k - 1)
         + (IF assigned[k][2] = rid
            THEN dons[IndexOf(dons, assigned[k][1])].total_weight_kg ELSE 0)

\* C12: when a matching run returns, every donation of a pair (d, r) of its
\* result is stored in state matched with matched_recipient_id = r, every
\* recipient's capacity is reduced by exactly the weights of the pairs that
\* name it, and no donation outside the result was moved to matched.
C12_ResultIsApplied ==
    [][(MatchRunStep /\ last'.outcome = "ok") =>
         /\ \A a \in 1..Len(last'.assigned) :
               LET d == donations'[IndexOf(donations', last'.assigned[a][1])]
               IN /\ d.state = "matched"
                  /\ d.matched_recipient_id = last'.assigned[a][2]
         /\ \A i \in 1..Len(recipients) :
               recipients'[i].capacity_kg =
                   recipients[i].capacity_kg
                   - AssignedWeight(last'.assigned, donations, recipients[i].id,
                                    Len(last'.assigned))
         /\ \A j \in 1..Len(donations) :
               (donations'[j].state = "matched" /\ donations[j].state # "matched")
               => \E i \in 1..Len(recipients) :
                     Reported(donations[j].id, recipients[i].id)
    ]_vars

\* C13: a matching run that directly follows a matching run of the same
\* radius, whatever the radius and the repository, has an empty result and
\* changes no donation and no recipient.
C13_SecondRunEmpty ==
    [][(IsMatchRun /\ MatchRunStep /\ last'.max_search_km = last.max_search_km) =>
         /\ last'.assigned = <<>>
         /\ donations' = donations
         /\ recipients' = recipients
    ]_vars

\* the first recipient, in the iteration order of list_recipients, among
\* those at the least distance that are eligible for the k-th examined
\* donation
FirstNearest(k) ==
    CHOOSE i \in NearestEligible(k) : \A j \in NearestEligible(k) : i <= j

\* C21: when several eligible recipients are at the same least distance from
\* a donation, the matching engine selects the one that comes first in the
\* iteration order of list_recipients: the donation's matched_recipient_id
\* is set to it and a pair reported for the donation names it.
C21_TieFirstInOrder ==
    IsMatchRun =>
       \A k \in 1..Len(last.trace) :
          Cardinality(NearestEligible(k)) >= 2
          => LET first == last.before.recipients[FirstNearest(k)].id
             IN /\ last.trace[k].chosen = first
                /\ donations[IndexOf(donations, last.trace[k].id)].matched_recipient_id
                      = first
                /\ \A a \in 1..Len(last.assigned) :
                      last.assigned[a][1] = last.trace[k].id
                      => last.assigned[a][2] = first

\* a run has reported a pair for a donation that had two eligible recipients
\* at the same least distance
C21_Witness ==
    /\ IsMatchRun
    /\ last.outcome = "ok"
    /\ \E k \in 1..Len(last.trace) :
          /\ Cardinality(NearestEligible(k)) >= 2
          /\ \E a \in 1..Len(last.assigned) :
                last.assigned[a] =
                    <<last.trace[k].id, last.before.recipients[FirstNearest(k)].id>>

\* what a matching run does to the posted donations without a location:
\* none is examined or reported, each is stored as it was in both
\* repositories and gets no audit entry, and every recipient's capacity is
\* reduced by the weight of the reported pairs, none of which names one
NoLocationUntouched ==
    /\ \A j \in 1..Len(donations) :
          (donations[j].location = NoLocation /\ donations[j].state = "posted")
          => /\ \A k \in 1..Len(last'.trace) : last'.trace[k].id # donations[j].id
             /\ \A a \in 1..Len(last'.assigned) :
                   last'.assigned[a][1] # donations[j].id
             /\ donations'[j] = donations[j]
             /\ donations'[j].state = "posted"
             /\ donations'[j].matched_recipient_id = None
             /\ donations[j].id \in DOMAIN sm_donations
                   => sm_donations'[donations[j].id] = sm_donations[donations[j].id]
             /\ get_audit_logs_for_donation(sm_audit_logs', donations[j].id)
                   = get_audit_logs_for_donation(sm_audit_logs, donations[j].id)
    /\ \A i \in 1..Len(recipients) :
          recipients'[i].capacity_kg =
              recipients[i].capacity_kg
              - AssignedWeight(last'.assigned, donations, recipients[i].id,
                               Len(last'.assigned))

\* C22: a posted donation without a location is never matched by the matching
\* engine: no run examines it or has it in its result, every run leaves its
\* state posted and its matched recipient unset in both repositories and gives
\* it no audit entry, and what a run takes from a recipient's capacity is the
\* weight of the reported pairs, none of which names it.
C22_NoLocationNeverMatched == [][MatchRunStep => NoLocationUntouched]_vars

\* a run has passed over a posted donation without a location, known to
\* both repositories, for which a recipient had the capacity, and has
\* assigned the donation listed after it
C22_Witness ==
    /\ IsMatchRun
    /\ last.outcome = "ok"
    /\ Len(last.before.donations) = 2
    /\ last.before.donations[1].location = NoLocation
    /\ last.before.donations[1].state = "posted"
    /\ last.before.donations[1].id \in DOMAIN sm_donations
    /\ \E i \in 1..Len(last.before.recipients) :
          last.before.recipients[i].capacity_kg
              >= last.before.donations[1].total_weight_kg
    /\ \E a \in 1..Len(last.assigned) :
          last.assigned[a][1] = last.before.donations[2].id

\* the outcomes of a matching run that transition_state ended by raising
TransitionRaised == {"NotFound", "InvalidTransition", "ValidationError"}

\* C27: when the state transition raises while a matching run records a
\* match for a donation, that donation's matched_recipient_id and state and
\* the chosen recipient's capacity are as they were before the run started on
\* the donation.
C27_FailedMatchRolledBack ==
    [][(MatchRunStep /\ last'.outcome \in TransitionRaised) =>
         LET e == last'.trace[Len(last'.trace)]
             j == IndexOf(donations, e.id)
         IN /\ donations'[j].matched_recipient_id = donations[j].matched_recipient_id
            /\ donations'[j].state = donations[j].state
            /\ e.id \in DOMAIN sm_donations
                  => sm_donations'[e.id].state = sm_donations[e.id].state
            /\ \A i \in 1..Len(recipients) :
                  recipients[i].id = e.chosen
                  => recipients'[i].capacity_kg = e.seen[i]
    ]_vars

----------------------------------------------------------------------------
(* api_app.py: creation of users and donations *)

\* User(...) of models_repo.py: role is a Role, location an
\* Optional[Dict[str, float]]
User(id, role, location) ==
    IF role \in Role /\ ValidFloatDict(location)
    THEN [id |-> id, role |-> role, location |-> location]
    ELSE ValidationError

\* u = User(id=id, role=role); u.location = location: the constructor
\* validates, the assignment does not
UserAt(id, role, location) == WithLocation(User(id, role, NoLocation), location)

\* the `location` a POST /users body may carry
UserLocations == {NoLocation, FlatLocation(1, 0), <<0, 1>>}

\* the `state` a POST /donations body may carry; the key may be left out
CreateStates == DonationState \cup {"bogus"}
\* donor_id of a donation a caller builds: a user identifier, or None
DonorIds == UserIds \cup {None}

\* create_user(u): POST /users; User(**u) validates the role and the
\* location, repo.add_user stores the user under its id, replacing the user
\* stored under an identifier in use
CreateUser(id, role, location) ==
    /\ LET user == User(id, role, location)
       IN IF IsError(user)
          THEN /\ last' = [op |-> "create_user", id |-> id,
                           outcome |-> "ValidationError"]
               /\ UNCHANGED users
          ELSE /\ users' = [i \in DOMAIN users \cup {id} |->
                               IF i = id THEN user ELSE users[i]]
               /\ last' = [op |-> "create_user", id |-> id, outcome |-> "ok"]
    /\ UNCHANGED <<donations, recipients, pickups, audit_logs>>
    /\ UNCHANGED sm_vars

\* create_donation(d): POST /donations; Donation(**d) takes every field of
\* the body, `id` and `state` included, then the donor is looked up and the
\* donation stored under its id
CreateDonation(id, donor_id, total_weight_kg, location, state) ==
    /\ LET donation == Donation(id, donor_id, total_weight_kg, location, state)
       IN IF IsError(donation)
          THEN /\ last' = [op |-> "create_donation", id |-> id,
                           outcome |-> "ValidationError"]
               /\ UNCHANGED donations
          ELSE IF donation.donor_id \notin DOMAIN users
          THEN /\ last' = [op |-> "create_donation", id |-> id,
                           outcome |-> "donor not found"]
               /\ UNCHANGED donations
          ELSE /\ donations' = DictSet(donations, donation)
               /\ last' = [op |-> "create_donation", id |-> id, outcome |-> "ok"]
    /\ UNCHANGED <<users, recipients, pickups, audit_logs>>
    /\ UNCHANGED sm_vars

\* seed_demo(): POST /seed/demo; its first statement builds the demo donor
\* with a GeoJSON location, which User refuses: the exception leaves the
\* handler before anything is stored
SeedDemo ==
    /\ IsError(User("u1", "donor", <<0, 1>>))
    /\ last' = [op |-> "seed_demo", outcome |-> "ValidationError"]
    /\ UNCHANGED app_vars
    /\ UNCHANGED sm_vars

CreateNext ==
    \/ SeedDemo
    \/ \E id \in DonationIds, u \in DonorIds, w \in Weights,
          l \in DonationLocations :
          AddDonation(id, u, w, l)
    \/ \E id \in DonationIds, u \in DonorIds, w \in Weights,
          l \in DonationLocations :
          UpdateDonation(id, u, w, l)
    \/ \E u \in UserIds, r \in RoleStrings, l \in UserLocations :
          CreateUser(u, r, l)
    \/ \E id \in DonationIds, u \in UserIds, w \in Weights,
          l \in DonationLocations, s \in CreateStates :
          CreateDonation(id, u, w, l, s)

SpecCreate == Init /\ [][CreateNext]_vars

\* C8: a donation stored by donation creation is in state posted, and
\* creation changes the state of no donation stored before.
C8_CreatedPosted ==
    [][(last'.op = "create_donation" /\ last'.outcome = "ok")
       => /\ last'.id \in Keys(donations')
          /\ donations'[IndexOf(donations', last'.id)].state = "posted"
          /\ \A i \in 1..Len(donations) :
                /\ donations[i].id \in Keys(donations')
                /\ donations'[IndexOf(donations', donations[i].id)].state
                      = donations[i].state]_vars

\* the state a donation must have been in just before it first is in state s
StateBefore(s) ==
    CASE s = "matched" -> "posted"
      [] s = "pickup_scheduled" -> "matched"
      [] s = "in_transit" -> "pickup_scheduled"
      [] s = "delivered" -> "in_transit"

\* C23: ordering of the lifecycle: a donation is in matched, pickup_scheduled,
\* in_transit or delivered after a step only if it was stored before the
\* step, in that state already or in the state that precedes it in the order
\* posted, matched, pickup_scheduled, in_transit, delivered; so delivered is
\* only reached through all of them, in this order.
C23_LifecycleOrder ==
    [][\A j \in 1..Len(donations') :
          donations'[j].state \in {"matched", "pickup_scheduled", "in_transit", "delivered"}
          => /\ donations'[j].id \in Keys(donations)
             /\ donations[IndexOf(donations, donations'[j].id)].state
                   \in {donations'[j].state, StateBefore(donations'[j].state)}
    ]_vars

----------------------------------------------------------------------------
(* api_app.py: the route planner and the pickup planning request *)

\* most stops a call of the route planner names
MaxStops == 3
\* most stops a pickup planning request names
MaxPickupStops == 2
\* most Pickups the application's repository may hold
MaxPickups == 1

\* input catalogues of route planning; every point lies on the meridian lon = 0
RouteIds == <<"d1", "d2", "d3">>
RouteDonationIds == {RouteIds[k] : k \in 1..Len(RouteIds)}
RouteLocations == {<<0, 0>>, <<0, 2>>, <<0, 3>>}
VolunteerLocations == {NoLocation, <<0, 1>>, FlatLocation(1, 0)}

\* the lists of at most n identifiers of ids a request may carry, repeats
\* included
RECURSIVE IdLists(_, _)
IdLists(ids, n) ==
    IF n = 0 THEN {<<>>}
    ELSE IdLists(ids, n - 1)
         \cup {Append(l, id) : l \in {m \in IdLists(ids, n - 1) : Len(m) = n - 1},
                                id \in ids}

\* line 153: (d.location["coordinates"][1], d.location["coordinates"][0])
RoutePoint(location) == <<location[2], location[1]>>

\* line 144-145: not v or not getattr(v, "location", None)
VolunteerMissing(usrs, volunteer_id) ==
    \/ volunteer_id \notin DOMAIN usrs
    \/ usrs[volunteer_id].location = NoLocation

\* line 150-151: not d or not getattr(d, "location", None)
DonationMissing(dons, did) ==
    \/ did \notin Keys(dons)
    \/ dons[IndexOf(dons, did)].location = NoLocation

\* lines 147 and 153: location["coordinates"] raises KeyError on a location
\* without that key
DonationUnreadable(dons, did) ==
    /\ ~DonationMissing(dons, did)
    /\ IsFlat(dons[IndexOf(dons, did)].location)

\* lines 149-153: the position in donation_ids of the first identifier the
\* loop raises on, 0 when it places every donation
FirstUnplaced(dons, donation_ids) ==
    LET bad == {k \in 1..Len(donation_ids) :
                   \/ DonationMissing(dons, donation_ids[k])
                   \/ DonationUnreadable(dons, donation_ids[k])}
    IN IF bad = {} THEN 0 ELSE CHOOSE k \in bad : \A j \in bad : k <= j

\* lines 159-161: distances.sort(key=distance) is stable, distances[0][1] is
\* the first remaining point at the least distance from current
Nearest(current, remaining) ==
    LET dist(p) == haversine_distance(current[1], current[2], p[1], p[2])
        k == CHOOSE i \in 1..Len(remaining) :
                \A j \in 1..Len(remaining) :
                   \/ dist(remaining[i]) < dist(remaining[j])
                   \/ dist(remaining[i]) = dist(remaining[j]) /\ i <= j
    IN remaining[k]

\* remaining.remove(nearest) taking out every point equal to nearest
Remove_AllEqual(remaining, nearest) ==
    SelectSeq(remaining, LAMBDA p : p # nearest)

\* line 163: remaining.remove(nearest) takes out the first equal point
Remove(remaining, nearest) ==
    LET k == CHOOSE i \in 1..Len(remaining) :
                /\ remaining[i] = nearest
                /\ \A j \in 1..(i - 1) : remaining[j] # nearest
    IN SubSeq(remaining, 1, k - 1) \o SubSeq(remaining, k + 1, Len(remaining))

\* the position the next stop is searched from, kept at the start
NextCurrent_Start(current, nearest) == current

\* line 164: current = nearest
NextCurrent(current, nearest) == nearest

\* lines 158-164: the loop `while remaining`
RECURSIVE NearestNeighborLoop(_, _, _)
NearestNeighborLoop(order, current, remaining) ==
    IF remaining = <<>> THEN order
    ELSE LET nearest == Nearest(current, remaining)
         IN NearestNeighborLoop(Append(order, nearest),
                                NextCurrent(current, nearest),
                                Remove(remaining, nearest))

\* what a planning call ends with: an error and no route, or a route, and the
\* users and donations of the repository as the call leaves them
RouteResult(how, route, usrs, dons) ==
    [outcome |-> how, route |-> route, users |-> usrs, donations |-> dons]

\* d.location["coordinates"].reverse() on the stored donations a call names:
\* get_donation hands out the stored object, so the repository sees it
ReverseCoordinates(dons, donation_ids) ==
    [j \in 1..Len(dons) |->
        IF /\ \E k \in 1..Len(donation_ids) : donation_ids[k] = dons[j].id
           /\ Len(dons[j].location) = 2
        THEN [dons[j] EXCEPT !.location = <<dons[j].location[2], dons[j].location[1]>>]
        ELSE dons[j]]

\* plan_route_local leaving out the donations it cannot place
plan_route_local_Lenient(usrs, dons, volunteer_id, donation_ids) ==
    IF VolunteerMissing(usrs, volunteer_id)
    THEN RouteResult("ok", <<>>, usrs, dons)
    ELSE IF IsFlat(usrs[volunteer_id].location)
    THEN RouteResult("KeyError", None, usrs, dons)
    ELSE
      LET v == usrs[volunteer_id]
          found == SelectSeq(donation_ids,
                             LAMBDA did : /\ ~DonationMissing(dons, did)
                                          /\ ~DonationUnreadable(dons, did))
          points == [k \in 1..Len(found) |->
                        RoutePoint(dons[IndexOf(dons, found[k])].location)]
      IN RouteResult("ok", NearestNeighborLoop(<<>>, RoutePoint(v.location), points),
                     usrs, dons)

\* plan_route_local taking each point it has read off the stored donation
\* the other way round: the coordinates list of every donation of a planned
\* route is reversed in the repository
plan_route_local_Reversing(usrs, dons, volunteer_id, donation_ids) ==
    IF VolunteerMissing(usrs, volunteer_id)
    THEN RouteResult("Volunteer missing or has no location", None, usrs, dons)
    ELSE IF IsFlat(usrs[volunteer_id].location)
    THEN RouteResult("KeyError", None, usrs, dons)
    ELSE IF FirstUnplaced(dons, donation_ids) # 0
    THEN IF DonationMissing(dons, donation_ids[FirstUnplaced(dons, donation_ids)])
         THEN RouteResult("Donation missing or has no location", None, usrs, dons)
         ELSE RouteResult("KeyError", None, usrs, dons)
    ELSE
      LET v == usrs[volunteer_id]
          points == [k \in 1..Len(donation_ids) |->
                        RoutePoint(dons[IndexOf(dons, donation_ids[k])].location)]
      IN RouteResult("ok", NearestNeighborLoop(<<>>, RoutePoint(v.location), points),
                     usrs, ReverseCoordinates(dons, donation_ids))

\* plan_route_local(volunteer_id, donation_ids) on the application's
\* repository. Lines 144 and 150 read with get_user and get_donation, lines
\* 147 and 153 copy numbers out of the locations into local tuples, and the
\* loop of lines 158-164 works on remaining, a copy of the local list points:
\* no statement assigns to a stored object, so the repository the call leaves
\* is the one it was given, on every path
plan_route_local(usrs, dons, volunteer_id, donation_ids) ==
    IF VolunteerMissing(usrs, volunteer_id)
    THEN RouteResult("Volunteer missing or has no location", None, usrs, dons)
    ELSE IF IsFlat(usrs[volunteer_id].location)
    THEN RouteResult("KeyError", None, usrs, dons)
    ELSE IF FirstUnplaced(dons, donation_ids) # 0
    THEN IF DonationMissing(dons, donation_ids[FirstUnplaced(dons, donation_ids)])
         THEN RouteResult("Donation missing or has no location", None, usrs, dons)
         ELSE RouteResult("KeyError", None, usrs, dons)
    ELSE
      LET v == usrs[volunteer_id]
          points == [k \in 1..Len(donation_ids) |->
                        RoutePoint(dons[IndexOf(dons, donation_ids[k])].location)]
      IN RouteResult("ok", NearestNeighborLoop(<<>>, RoutePoint(v.location), points),
                     usrs, dons)

\* Pickup(...) of models_repo.py
Pickup(id, volunteer_id, donation_ids, route_order) ==
    [id |-> id, volunteer_id |-> volunteer_id, donation_ids |-> donation_ids,
     route_order |-> route_order, status |-> "scheduled"]

\* gen_id(): an identifier not given before (uuid4 in the program)
gen_id(n) == "p" \o ToString(n)

\* one state of the loop of plan_pickup
PickupState(dons, smd, sml, outcome) ==
    [donations |-> dons, sm_donations |-> smd, sm_audit_logs |-> sml,
     outcome |-> outcome]

\* lines 218-222 for one donation identifier
PickupOne(st, smu, did, volunteer_id, pickup_id) ==
    LET t == transition_state(st.sm_donations, smu, st.sm_audit_logs, did,
                              "pickup_scheduled", volunteer_id,
                              "pickup " \o pickup_id \o " planned")
    IN IF t.outcome # "ok"
       THEN PickupState(st.donations, t.donations, t.audit_logs, t.outcome)
       ELSE PickupState(
                [st.donations EXCEPT ![IndexOf(st.donations, did)].pickup_id = pickup_id],
                t.donations, t.audit_logs, "ok")

\* lines 218-222: the loop over req.donation_ids; an exception ends it
RECURSIVE PickupLoop(_, _, _, _, _, _)
PickupLoop(st, smu, donation_ids, k, volunteer_id, pickup_id) ==
    IF k > Len(donation_ids) \/ st.outcome # "ok" THEN st
    ELSE PickupLoop(PickupOne(st, smu, donation_ids[k], volunteer_id, pickup_id),
                    smu, donation_ids, k + 1, volunteer_id, pickup_id)

\* repo.add_user(u) of models_repo.py: self.users[u.id] = u, which replaces
\* the user stored under an identifier in use
AddUser(id, role, location) ==
    /\ users' = [i \in DOMAIN users \cup {id} |->
                    IF i = id THEN UserAt(id, role, location) ELSE users[i]]
    /\ last' = [op |-> "add_user"]
    /\ UNCHANGED <<donations, recipients, pickups, audit_logs>>
    /\ UNCHANGED sm_vars

\* repo.add_pickup(Pickup(...)) of models_repo.py: self.pickups[p.id] = p,
\* which replaces the Pickup stored under an identifier in use; no donation
\* is touched and nothing is logged
AddPickup(id, volunteer_id, donation_ids, route_order) ==
    /\ pickups' = DictSet(pickups, Pickup(id, volunteer_id, donation_ids, route_order))
    /\ last' = [op |-> "add_pickup"]
    /\ UNCHANGED <<users, donations, recipients, audit_logs>>
    /\ UNCHANGED sm_vars

\* repo.update_pickup(Pickup(...)) of models_repo.py: KeyError for an
\* identifier not stored, otherwise the stored Pickup is replaced
UpdatePickup(id, volunteer_id, donation_ids, route_order) ==
    /\ IF id \notin Keys(pickups)
       THEN /\ last' = [op |-> "update_pickup", outcome |-> "KeyError"]
            /\ UNCHANGED pickups
       ELSE /\ pickups' = DictSet(pickups,
                               Pickup(id, volunteer_id, donation_ids, route_order))
            /\ last' = [op |-> "update_pickup", outcome |-> "ok"]
    /\ UNCHANGED <<users, donations, recipients, audit_logs>>
    /\ UNCHANGED sm_vars

\* a call of plan_route_local(volunteer_id, donation_ids); again tells that
\* the call before it was the same call, with the same arguments
PlanRoute(volunteer_id, donation_ids) ==
    /\ \E r \in {plan_route_local(users, donations, volunteer_id, donation_ids)} :
          /\ users' = r.users
          /\ donations' = r.donations
          /\ last' = [op |-> "plan_route_local", volunteer_id |-> volunteer_id,
                      donation_ids |-> donation_ids, outcome |-> r.outcome,
                      route |-> r.route,
                      again |-> /\ last.op = "plan_route_local"
                                /\ last.volunteer_id = volunteer_id
                                /\ last.donation_ids = donation_ids]
    /\ UNCHANGED <<recipients, pickups, audit_logs>>
    /\ UNCHANGED sm_vars

\* plan_pickup(req): POST /pickups/plan; an exception of the planner or of a
\* transition leaves the handler (HTTP 500), what was written stays
PlanPickup(volunteer_id, donation_ids) ==
    /\ Len(pickups) < MaxPickups
    /\ LET r == plan_route_local(users, donations, volunteer_id, donation_ids)
           pid == gen_id(Len(pickups) + 1)
       IN IF r.outcome # "ok"
          THEN /\ last' = [op |-> "plan_pickup", volunteer_id |-> volunteer_id,
                           donation_ids |-> donation_ids, outcome |-> r.outcome,
                           route |-> r.route, pickup_id |-> None]
               /\ users' = r.users
               /\ donations' = r.donations
               /\ UNCHANGED <<pickups, sm_donations, sm_audit_logs>>
          ELSE LET st == PickupLoop(PickupState(r.donations, sm_donations,
                                                sm_audit_logs, "ok"),
                                    sm_users, donation_ids, 1, volunteer_id, pid)
               IN /\ pickups' = Append(pickups,
                                       Pickup(pid, volunteer_id, donation_ids, r.route))
                  /\ users' = r.users
                  /\ donations' = st.donations
                  /\ sm_donations' = st.sm_donations
                  /\ sm_audit_logs' = st.sm_audit_logs
                  /\ last' = [op |-> "plan_pickup", volunteer_id |-> volunteer_id,
                              donation_ids |-> donation_ids, outcome |-> st.outcome,
                              route |-> r.route, pickup_id |-> pid]
    /\ UNCHANGED <<recipients, audit_logs, sm_users>>

\* the repositories the route planner is called on: no user or one user, with
\* or without a location, and up to three donations with locations
InitRoute ==
    /\ sm_donations = EmptyMap
    /\ sm_users = EmptyMap
    /\ sm_audit_logs = EmptyMap
    /\ users \in {EmptyMap}
                 \cup {[i \in {u} |-> UserAt(u, "volunteer", l)] :
                          u \in UserIds, l \in VolunteerLocations}
    /\ \E n \in 0..Len(RouteIds) :
          \E locs \in [1..n -> RouteLocations] :
             donations = [k \in 1..n |->
                             Donation(RouteIds[k], "u1", 1, locs[k], "posted")]
    /\ recipients = <<>>
    /\ pickups = <<>>
    /\ audit_logs = EmptyMap
    /\ last = [op |-> "init"]

RouteNext ==
    \E u \in UserIds, ids \in IdLists(RouteDonationIds, MaxStops) : PlanRoute(u, ids)

SpecRoute == InitRoute /\ [][RouteNext]_vars

\* the state a donation of state_machine.repo is in when a pickup is planned
\* for it: matched, the only state pickup_scheduled is allowed from
PickupStates == {"matched"}

\* the donations (id, donor_id, location) a pickup is planned for
PickupDonations ==
    {<<"d1", "u1", <<0, 0>>>>, <<"d1", "u1", FlatLocation(0, 0)>>,
     <<"d2", "u1", <<0, 0>>>>, <<"d2", "u1", NoLocation>>}

\* the locations of the volunteer a pickup is planned for: none, or a point
\* assigned after construction
PickupVolunteerLocations == {NoLocation, <<0, 1>>}

\* the Pickup (volunteer_id, donation_ids, route_order) a caller stores
\* itself: volunteer u1 collects donation d1 at (0, 0)
StoredPickups == {<<"u1", <<"d1">>, <<(<<0, 0>>)>>>>}

\* the identifier a caller stores a Pickup under: the first one gen_id gives
StoredPickupIds == {gen_id(1)}

PickupNext ==
    \/ \E id \in StoredPickupIds, p \in StoredPickups :
          AddPickup(id, p[1], p[2], p[3])
    \/ \E id \in StoredPickupIds, p \in StoredPickups :
          UpdatePickup(id, p[1], p[2], p[3])
    \/ \E u \in UserIds, l \in PickupVolunteerLocations : AddUser(u, "volunteer", l)
    \/ \E d \in PickupDonations : AddDonation(d[1], d[2], 1, d[3])
    \/ \E id \in DonationIds, s \in PickupStates : SmAddDonation(id, s)
    \/ \E u \in UserIds, ids \in IdLists(DonationIds, MaxPickupStops) : PlanPickup(u, ids)

SpecPickup == Init /\ [][PickupNext]_vars

----------------------------------------------------------------------------
(* The claims about route planning, checked under SpecRoute and SpecPickup *)

IsRouteCall == last.op = "plan_route_local"

\* the (lat, lon) points of the donations a call names, in the order passed
ClaimPoints(dons, ids) ==
    [k \in 1..Len(ids) |->
        LET loc == dons[IndexOf(dons, ids[k])].location IN <<loc[2], loc[1]>>]

\* how often point p occurs in a list of points
Count(seq, p) == Cardinality({k \in 1..Len(seq) : seq[k] = p})

\* the volunteer and every donation the call names exist and have locations
\* that carry coordinates (a longitude, latitude pair)
ClaimInputValid(usrs, dons, volunteer_id, ids) ==
    /\ volunteer_id \in DOMAIN usrs
    /\ IsGeoJSON(usrs[volunteer_id].location)
    /\ \A k \in 1..Len(ids) :
          /\ ids[k] \in Keys(dons)
          /\ IsGeoJSON(dons[IndexOf(dons, ids[k])].location)

\* C14: for a volunteer with a location and donation identifiers that all
\* exist and have locations (longitude, latitude pairs), plan_route_local
\* returns a route that is a permutation of the donations' locations: same
\* length, every location as often as it was passed, nothing added.
C14_RouteIsPermutation ==
    (IsRouteCall /\ ClaimInputValid(users, donations, last.volunteer_id, last.donation_ids))
    => LET points == ClaimPoints(donations, last.donation_ids)
       IN /\ last.outcome = "ok"
          /\ Len(last.route) = Len(points)
          /\ \A k \in 1..Len(points) :
                Count(last.route, points[k]) = Count(points, points[k])
          /\ \A k \in 1..Len(last.route) :
                Count(points, last.route[k]) = Count(last.route, last.route[k])

\* a route of three stops was returned, two of them at the same coordinates,
\* in another order than the donations were passed
C14_Witness ==
    /\ IsRouteCall
    /\ last.outcome = "ok"
    /\ Len(last.route) = 3
    /\ \E k \in 1..3 : Count(last.route, last.route[k]) = 2
    /\ last.route # ClaimPoints(donations, last.donation_ids)

\* distance of two (lat, lon) points of one meridian, in steps of latitude
RouteDistance(p, q) == IF p[1] >= q[1] THEN p[1] - q[1] ELSE q[1] - p[1]

\* the position the k-th stop of the route of the last call was reached from
StopBefore(k) ==
    IF k = 1
    THEN LET loc == users[last.volunteer_id].location IN <<loc[2], loc[1]>>
    ELSE last.route[k - 1]

\* the input locations not placed in the first k - 1 stops of the route
NotYetPlaced(points, k) ==
    {points[m] : m \in {n \in 1..Len(points) :
        Count(points, points[n]) > Count(SubSeq(last.route, 1, k - 1), points[n])}}

\* C15: in a returned route the first stop is an input location at the least
\* distance from the volunteer, and every later stop is at the least distance
\* from the stop before it among the input locations not yet placed.
C15_StopsAreNearest ==
    (IsRouteCall /\ last.outcome = "ok")
    => \A k \in 1..Len(last.route) :
          \A p \in NotYetPlaced(ClaimPoints(donations, last.donation_ids), k) :
             RouteDistance(StopBefore(k), last.route[k])
                <= RouteDistance(StopBefore(k), p)

\* a route of three different stops was returned whose second stop is farther
\* from the volunteer than its third stop
C15_Witness ==
    /\ IsRouteCall
    /\ last.outcome = "ok"
    /\ Len(last.route) = 3
    /\ Cardinality({last.route[k] : k \in 1..3}) = 3
    /\ RouteDistance(StopBefore(1), last.route[2])
          > RouteDistance(StopBefore(1), last.route[3])

\* C24: when a pickup planning request succeeds, a new Pickup holding the
\* volunteer, the donation identifiers and the computed route is stored, and
\* every referenced donation is then in state pickup_scheduled with pickup_id
\* the new Pickup's identifier and with one more audit entry, which records
\* the move to pickup_scheduled by the volunteer.
C24_PickupApplied ==
    [][(last'.op = "plan_pickup" /\ last'.outcome = "ok") =>
         /\ Len(pickups') = Len(pickups) + 1
         /\ SubSeq(pickups', 1, Len(pickups)) = pickups
         /\ LET p == pickups'[Len(pickups')]
            IN /\ p.id = last'.pickup_id
               /\ p.id \notin Keys(pickups)
               /\ p.volunteer_id = last'.volunteer_id
               /\ p.donation_ids = last'.donation_ids
               /\ p.route_order = last'.route
               /\ \A k \in 1..Len(last'.donation_ids) :
                     LET id == last'.donation_ids[k]
                         d == donations'[IndexOf(donations', id)]
                         before == get_audit_logs_for_donation(sm_audit_logs, id)
                         after == get_audit_logs_for_donation(sm_audit_logs', id)
                     IN /\ d.state = "pickup_scheduled"
                        /\ d.pickup_id = p.id
                        /\ Len(after) = Len(before) + 1
                        /\ after[Len(after)].new_state = "pickup_scheduled"
                        /\ after[Len(after)].old_state = "matched"
                        /\ after[Len(after)].actor_user_id = last'.volunteer_id
    ]_vars

\* C28: a call of plan_route_local, whether it returns a route or fails,
\* leaves every user, donation, recipient, Pickup and audit log of both
\* repositories as it was, and a call that follows the same call, with the
\* same arguments and so on the repository the first one left, ends the same
\* way with the same route.
C28_PlannerIsPure ==
    [][last'.op = "plan_route_local" =>
         /\ users' = users
         /\ donations' = donations
         /\ recipients' = recipients
         /\ pickups' = pickups
         /\ audit_logs' = audit_logs
         /\ sm_donations' = sm_donations
         /\ sm_users' = sm_users
         /\ sm_audit_logs' = sm_audit_logs
         /\ last'.again => /\ last'.outcome = last.outcome
                           /\ last'.route = last.route
    ]_vars

\* the second of two calls with the same arguments has returned a route of
\* two stops at different points, for donations whose longitude and latitude
\* differ
C28_Witness ==
    /\ IsRouteCall
    /\ last.again
    /\ last.outcome = "ok"
    /\ Len(last.route) = 2
    /\ last.route[1] # last.route[2]
    /\ \A k \in 1..Len(last.donation_ids) :
          LET d == donations[IndexOf(donations, last.donation_ids[k])]
          IN d.location[1] # d.location[2]

\* ---- the application on its own: donations enter through POST /donations ----
\* nothing of api_app.py adds a donation to state_machine.repo

AppRecipientIds == {"r1"}
AppRadii == {2}
AppCapacities == {3}
AppStates == {"posted"}
AppRequestedStates == {"matched", "cancelled"}

AppNext ==
    \/ \E u \in UserIds, l \in VolunteerLocations : AddUser(u, "volunteer", l)
    \/ \E id \in DonationIds, u \in UserIds, l \in DonationLocations, s \in AppStates :
          CreateDonation(id, u, 1, l, s)
    \/ \E id \in AppRecipientIds, c \in AppCapacities, l \in RecipientLocations :
          AddRecipient(id, c, l)
    \/ \E id \in DonationIds, s \in AppRequestedStates, a \in Actors :
          TransitionState(id, s, a, None)
    \/ \E km \in AppRadii : RunMatching(km)
    \/ \E u \in UserIds, ids \in IdLists(DonationIds, MaxPickupStops) : PlanPickup(u, ids)

SpecApp == Init /\ [][AppNext]_vars

\* the last request named donations of the application's repository: the
\* donation of a transition request, the donations a matching run found a
\* recipient for, the donations of a pickup planning request
RefersToAppDonation ==
    IF last.op = "transition_state" THEN last.id \in Keys(donations)
    ELSE IF last.op = "greedy_match_local"
    THEN \E k \in 1..Len(last.trace) :
            /\ last.trace[k].chosen # None
            /\ last.trace[k].id \in Keys(donations)
    ELSE IF last.op = "plan_pickup"
    THEN /\ last.donation_ids # <<>>
         /\ \A k \in 1..Len(last.donation_ids) : last.donation_ids[k] \in Keys(donations)
    ELSE FALSE

\* C30: a transition request, a matching run or a pickup planning request
\* that refers to a donation stored in the application's repository does not
\* fail with "Donation not found".
C30_AppDonationVisible ==
    RefersToAppDonation => last.outcome # "NotFound"

\* ---- the loop of plan_route_local, one iteration a step ----
\* `last` holds the locals of the running call: points, order, current and
\* remaining, and pc, the place the call is at ("while": at the loop test,
\* "returned": after line 165, "raised": after a ValueError of line 145 or 151)

\* the locals of a call
RouteLocals(pc, volunteer_id, donation_ids, points, order, current, remaining) ==
    [op |-> "route_loop", pc |-> pc, volunteer_id |-> volunteer_id,
     donation_ids |-> donation_ids, points |-> points, order |-> order,
     current |-> current, remaining |-> remaining]

\* no call is running
RouteIdle == IF last.op = "init" THEN TRUE ELSE last.pc \in {"returned", "raised"}

\* lines 143-157: the checks, points, order = [], current, remaining = points.copy()
RouteEnter(volunteer_id, donation_ids) ==
    /\ RouteIdle
    /\ last' =
          IF \/ VolunteerMissing(users, volunteer_id)
             \/ IsFlat(users[volunteer_id].location)
             \/ FirstUnplaced(donations, donation_ids) # 0
          THEN RouteLocals("raised", volunteer_id, donation_ids, <<>>, <<>>, <<>>, <<>>)
          ELSE LET points == [k \in 1..Len(donation_ids) |->
                                 RoutePoint(donations[IndexOf(donations,
                                                              donation_ids[k])].location)]
               IN RouteLocals("while", volunteer_id, donation_ids, points, <<>>,
                              RoutePoint(users[volunteer_id].location), points)
    /\ UNCHANGED app_vars
    /\ UNCHANGED sm_vars

\* lines 158-164: one iteration of `while remaining`
RouteIter ==
    /\ last.op = "route_loop"
    /\ last.pc = "while"
    /\ last.remaining # <<>>
    /\ LET nearest == Nearest(last.current, last.remaining)
       IN last' = [last EXCEPT !.order = Append(last.order, nearest),
                               !.remaining = Remove(last.remaining, nearest),
                               !.current = NextCurrent(last.current, nearest)]
    /\ UNCHANGED app_vars
    /\ UNCHANGED sm_vars

\* lines 158, 165: the loop test fails and order is returned
RouteReturn ==
    /\ last.op = "route_loop"
    /\ last.pc = "while"
    /\ last.remaining = <<>>
    /\ last' = [last EXCEPT !.pc = "returned"]
    /\ UNCHANGED app_vars
    /\ UNCHANGED sm_vars

LoopNext ==
    \/ \E u \in UserIds, ids \in IdLists(RouteDonationIds, MaxStops) : RouteEnter(u, ids)
    \/ RouteIter
    \/ RouteReturn

SpecLoop == InitRoute /\ [][LoopNext]_vars

\* the thread running the call keeps running: an iteration or the return
\* that can be taken is taken
SpecLoopFair == SpecLoop /\ WF_vars(RouteIter) /\ WF_vars(RouteReturn)

\* a call is at the loop test
InLoop == last.op = "route_loop" /\ last.pc = "while"

\* the call has returned
LoopReturned == last.op = "route_loop" /\ last.pc = "returned"

\* the step is one iteration of the loop
IterationStep == InLoop /\ last'.op = "route_loop" /\ last'.pc = "while" /\ last' # last

\* seq without one occurrence of p
IsWithoutOne(shorter, seq, p) ==
    \E k \in 1..Len(seq) :
       /\ seq[k] = p
       /\ shorter = SubSeq(seq, 1, k - 1) \o SubSeq(seq, k + 1, Len(seq))

\* the step takes one location out of remaining and puts it at the end of
\* order
IterationTakesOne ==
    /\ last.remaining # <<>>
    /\ Len(last'.remaining) = Len(last.remaining) - 1
    /\ Len(last'.order) = Len(last.order) + 1
    /\ SubSeq(last'.order, 1, Len(last.order)) = last.order
    /\ IsWithoutOne(last'.remaining, last.remaining, last'.order[Len(last'.order)])

\* the step returns, with remaining empty, an order that holds each input
\* location as often as points
ReturnsWhole ==
    /\ last.remaining = <<>>
    /\ last'.order = last.order
    /\ Len(last'.order) = Len(last'.points)
    /\ \A k \in 1..Len(last'.points) :
          Count(last'.order, last'.points[k]) = Count(last'.points, last'.points[k])

\* an iteration takes one location, a return hands back the whole input, and
\* with remaining empty the only step is the return
LoopStepInOrder ==
    /\ IterationStep => IterationTakesOne
    /\ (InLoop /\ last'.pc = "returned") => ReturnsWhole
    /\ (InLoop /\ last.remaining = <<>> /\ last' # last) => last'.pc = "returned"

\* C29: the nearest-neighbour loop of a call with valid input terminates;
\* each iteration takes exactly one location out of remaining and puts it at
\* the end of the route, and the call returns exactly when remaining is
\* empty, with a route that holds every input location as often as the input.
C29_LoopTerminates ==
    /\ [][LoopStepInOrder]_vars
    /\ (InLoop ~> LoopReturned)

\* a call for three donations, two of them at one place, has returned
C29_Witness ==
    /\ LoopReturned
    /\ Len(last.order) = 3
    /\ \E i, j \in 1..3 : i # j /\ last.points[i] = last.points[j]

\* the step is a call of the route planner or a pickup planning request
PlanningStep == last'.op \in {"plan_route_local", "plan_pickup"}

\* C16: a call of the route planner, and a pickup planning request, for a
\* volunteer that does not exist or has no location, or naming a donation
\* that does not exist or has no location (none at all, or one without
\* coordinates), ends with an error and no route, stores no Pickup and
\* changes no donation and no audit log.
C16_PlanningFailsOnMissing ==
    [][(/\ PlanningStep
        /\ ~ClaimInputValid(users, donations, last'.volunteer_id, last'.donation_ids))
       => /\ last'.outcome # "ok"
          /\ last'.route = None
          /\ pickups' = pickups
          /\ donations' = donations
          /\ sm_donations' = sm_donations
          /\ sm_audit_logs' = sm_audit_logs
    ]_vars

\* a pickup planning request by a volunteer with a location has failed for
\* its second donation, which has no location, the first being ready for
\* pickup
C16_Witness ==
    /\ last.op = "plan_pickup"
    /\ last.outcome = "Donation missing or has no location"
    /\ ~VolunteerMissing(users, last.volunteer_id)
    /\ Len(last.donation_ids) = 2
    /\ ~DonationMissing(donations, last.donation_ids[1])
    /\ last.donation_ids[1] \in DOMAIN sm_donations
    /\ sm_donations[last.donation_ids[1]].state = "matched"
    /\ last.donation_ids[2] \in Keys(donations)
    /\ pickups = <<>>

----------------------------------------------------------------------------
(* The audit trail under every operation that writes it: transition
   requests, matching runs and pickup planning, on donations that are
   created posted in both repositories *)

\* the donations of the audit trail specification
AuditIds == {"d1"}
AuditRecipientIds == {"r1"}
AuditRadii == {1}
\* a role string add_user stores that is no Role
AuditRoles == {"root"}
\* the target states of the transition requests
AuditTargets == {"matched", "pickup_scheduled", "cancelled"}
\* the target states of the transition requests beside matching runs and
\* pickup planning
TrailTargets == {"matched", "cancelled"}

AuditNext ==
    \/ \E id \in AuditIds : SmAddDonation(id, "posted")
    \/ \E u \in UserIds, r \in AuditRoles : SmAddUser(u, r)
    \/ \E id \in AuditIds : AddDonation(id, "u1", 1, <<0, 0>>)
    \/ \E id \in AuditRecipientIds : AddRecipient(id, 3, <<0, 1>>)
    \/ \E u \in UserIds : AddUser(u, "volunteer", <<0, 1>>)
    \/ /\ AppTotalLog < MaxLog
       /\ \E id \in AuditIds, e \in DirectEntries : AddAuditLog(id, e[1], e[2])
    \/ /\ TotalLog < MaxLog
       /\ \E id \in AuditIds, s \in AuditTargets, a \in Actors, n \in Notes :
             TransitionState(id, s, a, n)
    \/ /\ TotalLog < MaxLog
       /\ \E km \in AuditRadii : RunMatching(km)
    \/ /\ TotalLog < MaxLog
       /\ \E u \in UserIds, ids \in IdLists(AuditIds, MaxPickupStops) : PlanPickup(u, ids)

SpecAudit == Init /\ [][AuditNext]_vars

\* every operation that writes an audit log, of either repository: transition
\* requests without acting user, matching runs, pickup planning and the
\* direct calls of add_audit_log
TrailNext ==
    \/ \E id \in AuditIds : SmAddDonation(id, "posted")
    \/ \E id \in AuditIds : AddDonation(id, "u1", 1, <<0, 0>>)
    \/ \E id \in AuditRecipientIds : AddRecipient(id, 3, <<0, 1>>)
    \/ \E u \in UserIds : AddUser(u, "volunteer", <<0, 1>>)
    \/ /\ TotalLog < MaxLog
       /\ \E id \in AuditIds, e \in DirectEntries : SmAddAuditLog(id, e[1], e[2])
    \/ /\ AppTotalLog < MaxLog
       /\ \E id \in AuditIds, e \in DirectEntries : AddAuditLog(id, e[1], e[2])
    \/ /\ TotalLog < MaxLog
       /\ \E id \in AuditIds, s \in TrailTargets : TransitionState(id, s, None, None)
    \/ /\ TotalLog < MaxLog
       /\ \E km \in AuditRadii : RunMatching(km)
    \/ /\ TotalLog < MaxLog
       /\ \E u \in UserIds, ids \in IdLists(AuditIds, MaxPickupStops) : PlanPickup(u, ids)

SpecTrail == Init /\ [][TrailNext]_vars

\* list a is a prefix of list b
IsPrefix(a, b) == Len(a) <= Len(b) /\ SubSeq(b, 1, Len(a)) = a

\* C18: the audit log of a donation is append-only: in every step of every
\* operation each log, of either repository, is a prefix of what it is after
\* the step; no entry is removed, modified or reordered.
C18_AuditAppendOnly ==
    [][/\ \A id \in DOMAIN sm_audit_logs :
             /\ id \in DOMAIN sm_audit_logs'
             /\ IsPrefix(sm_audit_logs[id], sm_audit_logs'[id])
       /\ \A id \in DOMAIN audit_logs :
             /\ id \in DOMAIN audit_logs'
             /\ IsPrefix(audit_logs[id], audit_logs'[id])
    ]_vars

\* a donation's log in state_machine.repo holds the entry of a matching run
\* followed by the entry of a pickup planning request, and its log in the
\* application's repository holds two entries, the second appended to the
\* first
C18_Witness ==
    \E id \in DOMAIN sm_audit_logs :
        /\ Len(sm_audit_logs[id]) = 2
        /\ sm_audit_logs[id][1].notes = "auto-match"
        /\ sm_audit_logs[id][2].notes = "pickup p1 planned"
        /\ last.op = "plan_pickup"
        /\ Len(api_audit_logs(id)) = 2

\* the log of donation id replays to the donation stored in dons: when the
\* log is not empty, its first entry's old_state is the state the donation
\* was created in (posted), each later entry's old_state is the new_state of
\* the entry before it, and the last entry's new_state is the donation's
\* state
Replays(logs, dons, id) ==
    LET log == get_audit_logs_for_donation(logs, id)
    IN log # <<>> =>
          /\ log[1].old_state = "posted"
          /\ \A k \in 2..Len(log) : log[k].old_state = log[k - 1].new_state
          /\ id \in DOMAIN dons
          /\ log[Len(log)].new_state = dons[id].state

\* the step is one of the operations that write the audit trail
AuditedStep == last'.op \in {"transition_state", "greedy_match_local", "plan_pickup"}

\* C19: audit replay: after any sequence of transition requests, matching
\* runs and pickup planning requests, run one at a time, the log of every
\* donation with a non-empty log replays: each of these operations, taken on
\* a donation whose log is empty or replays to its state, leaves a log that
\* is empty or replays to its state.
C19_AuditReplay ==
    [][AuditedStep =>
         \A id \in DOMAIN sm_donations :
            Replays(sm_audit_logs, sm_donations, id)
            => Replays(sm_audit_logs', sm_donations', id)
    ]_vars

----------------------------------------------------------------------------
(* The acting user of a transition, checked under SpecActor *)

\* the identifiers users are registered under and calls name as acting user;
\* the empty string is a str like any other
ActorUserIds == {"u1", ""}
ActorTargets == {"posted", "matched", "delivered"}

ActorNext ==
    \/ \E id \in DonationIds : SmAddDonation(id, "posted")
    \/ \E u \in ActorUserIds, r \in RoleStrings : SmAddUser(u, r)
    \/ /\ TotalLog < MaxLog
       /\ \E id \in DonationIds, s \in ActorTargets,
             a \in {None} \cup ActorUserIds, n \in Notes :
             TransitionState(id, s, a, n)

SpecActor == Init /\ [][ActorNext]_vars

\* C20: every audit entry transition_state writes has actor_role absent when
\* its acting user is omitted or not in the repository, and the stored role
\* of its acting user when that user is in the repository.
C20_ActorRoleRecorded ==
    [][\A id \in DOMAIN sm_audit_logs' :
          LET before == get_audit_logs_for_donation(sm_audit_logs, id)
              after == sm_audit_logs'[id]
          IN \A k \in (Len(before) + 1)..Len(after) :
                after[k].actor_role =
                    IF after[k].actor_user_id \in DOMAIN sm_users
                    THEN sm_users[after[k].actor_user_id].role
                    ELSE None
    ]_vars

----------------------------------------------------------------------------
(* Concurrent requests: api_transition is a plain `def`, which the server
   runs on a thread of its pool; two requests for one donation run
   transition_state at the same time, a thread switch falling between any
   two statements. No statement of state_machine.py takes a lock. *)

Threads == {"t1", "t2"}
RaceIds == {"d1"}
RaceStates == {"posted", "matched"}

\* the locals of one call of transition_state: pc is the statement the call
\* is at ("idle": no call, or the call has ended with `outcome`)
Call(pc, id, new_state, old_state, outcome) ==
    [pc |-> pc, id |-> id, new_state |-> new_state, old_state |-> old_state,
     outcome |-> outcome]

InitRace ==
    /\ sm_donations \in {[i \in {id} |-> SmDonation(id, s)] :
                             id \in RaceIds, s \in RaceStates}
    /\ sm_users = EmptyMap
    /\ sm_audit_logs = EmptyMap
    /\ users = EmptyMap
    /\ donations = <<>>
    /\ recipients = <<>>
    /\ pickups = <<>>
    /\ audit_logs = EmptyMap
    /\ last = [op |-> "transition_state_steps",
               calls |-> [t \in Threads |-> Call("idle", None, None, None, None)]]

\* the calls that have begun and not ended
InFlight == {t \in Threads : last.calls[t].pc # "idle"}

\* lines 91-94: d = repo.get_donation(donation_id); old_state = d.state
TsRead(t, donation_id, new_state) ==
    /\ last.calls[t].pc = "idle"
    /\ TotalLog + Cardinality(InFlight) < MaxLog
    /\ last' = [last EXCEPT !.calls[t] =
                    IF donation_id \notin DOMAIN sm_donations
                    THEN Call("idle", donation_id, new_state, None, "NotFound")
                    ELSE Call("check", donation_id, new_state,
                              sm_donations[donation_id].state, None)]
    /\ UNCHANGED sm_vars
    /\ UNCHANGED app_vars

\* lines 95, 106-108: the test for the idempotent case and the table
TsCheck(t) ==
    /\ last.calls[t].pc = "check"
    /\ LET c == last.calls[t]
       IN last' = [last EXCEPT !.calls[t] =
                      IF c.new_state = c.old_state THEN [c EXCEPT !.pc = "append"]
                      ELSE IF c.new_state \notin ALLOWED_TRANSITIONS[c.old_state]
                      THEN [c EXCEPT !.pc = "idle", !.outcome = "InvalidTransition"]
                      ELSE [c EXCEPT !.pc = "write"]]
    /\ UNCHANGED sm_vars
    /\ UNCHANGED app_vars

\* lines 109-110: d.state = new_state; repo.update_donation(d)
TsWrite(t) ==
    /\ last.calls[t].pc = "write"
    /\ LET c == last.calls[t]
       IN /\ sm_donations' = [sm_donations EXCEPT ![c.id].state = c.new_state]
          /\ last' = [last EXCEPT !.calls[t].pc = "append"]
    /\ UNCHANGED <<sm_users, sm_audit_logs>>
    /\ UNCHANGED app_vars

\* lines 96-105 and 111-120: the entry is built from old_state as read and
\* appended; the request names no acting user
TsAppend(t) ==
    /\ last.calls[t].pc = "append"
    /\ LET c == last.calls[t]
           notes == IF c.new_state = c.old_state THEN NotesOrDefault(None) ELSE None
       IN /\ sm_audit_logs' =
                add_audit_log(sm_audit_logs,
                    AuditLogEntry(c.id, None, actor_role(sm_users, None),
                                  c.old_state, c.new_state, notes))
          /\ last' = [last EXCEPT !.calls[t] = [c EXCEPT !.pc = "idle",
                                                         !.outcome = "ok"]]
    /\ UNCHANGED <<sm_donations, sm_users>>
    /\ UNCHANGED app_vars

RaceNext ==
    \E t \in Threads :
       \/ \E id \in DonationIds, s \in DonationState : TsRead(t, id, s)
       \/ TsCheck(t)
       \/ TsWrite(t)
       \/ TsAppend(t)

SpecRace == InitRace /\ [][RaceNext]_vars

\* no call of transition_state is running
Quiescent == InFlight = {}

\* C26: however the steps of two transition_state calls on one donation
\* interleave, when both have ended each entry of the donation's audit log
\* has as old_state the new_state of the entry before it, and the last
\* entry's new_state is the state the donation is in.
C26_CausalOrder ==
    Quiescent =>
       \A id \in DOMAIN sm_audit_logs :
          LET log == sm_audit_logs[id]
          IN /\ \A k \in 2..Len(log) : log[k].old_state = log[k - 1].new_state
             /\ log # <<>> => log[Len(log)].new_state = sm_donations[id].state

\* ---- a matching run beside another request ----
\* run_matching is a plain `def` too: a thread switch falls between any two
\* statements of greedy_match_local and of the transition_state it calls,
\* of two runs or of a run and the transition request of another actor

RaceDonationIds == <<"d1">>
RaceRecipientIds == {"r1"}
RaceRadii == {2}
RaceTargets == {"matched", "cancelled"}
\* the thread that serves the other actor's transition requests
RaceActors == {"t1"}

\* the locals of one run of greedy_match_local: `open` the positions of the
\* donations listed at line 119, k the place of the loop in it, chosen the
\* position of the recipient chosen for open[k], old_state the local of the
\* transition_state the run has called, capacity the value of
\* chosen.capacity_kg that line 137 has loaded; listed_posted holds the
\* listed donations state_machine.repo had as posted when the run listed
\* them, stale says that the donation the run has just advanced was one of
\* them and no longer posted when the run advanced it
Run(pc, max_search_km, open, k, chosen, assigned, outcome, listed_posted, stale) ==
    [pc |-> pc, max_search_km |-> max_search_km, open |-> open, k |-> k,
     chosen |-> chosen, assigned |-> assigned, outcome |-> outcome,
     listed_posted |-> listed_posted, stale |-> stale,
     old_state |-> None, capacity |-> 0]

\* one recipient in reach of the donations, each donation stored in both
\* repositories as posted; `deducted` lists the decrements of line 137 made
\* so far, as pairs of donation and recipient
InitMatchRace ==
    /\ \E n \in 1..Len(RaceDonationIds) :
          /\ donations = [k \in 1..n |->
                             Donation(RaceDonationIds[k], "u1", 1, <<0, 0>>, "posted")]
          /\ sm_donations = [i \in {RaceDonationIds[k] : k \in 1..n} |->
                                SmDonation(i, "posted")]
    /\ recipients \in {<<RecipientAt(r, c, <<0, 1>>)>> :
                           r \in RaceRecipientIds, c \in Capacities}
    /\ sm_users = EmptyMap
    /\ sm_audit_logs = EmptyMap
    /\ users = EmptyMap
    /\ pickups = <<>>
    /\ audit_logs = EmptyMap
    /\ last = [op |-> "greedy_match_local_steps",
               runs |-> [t \in Threads |->
                            Run("idle", None, <<>>, 1, None, <<>>, None, {}, FALSE)],
               calls |-> [t \in Threads |-> Call("idle", None, None, None, None)],
               deducted |-> <<>>]

\* the runs that have begun and not ended
RunsInFlight == {t \in Threads : last.runs[t].pc # "idle"}

\* lines 118-119: assigned = []; donations = repo.list_open_donations()
MrList(t, max_search_km) ==
    /\ last.runs[t].pc = "idle"
    /\ TotalLog + Cardinality(RunsInFlight) < MaxLog
    /\ LET open == list_open_donations(donations, 1)
       IN last' = [last EXCEPT !.runs[t] =
                      Run("choose", max_search_km, open, 1, None, <<>>, None,
                          {donations[open[i]].id : i \in
                              {j \in 1..Len(open) :
                                  /\ donations[open[j]].id \in DOMAIN sm_donations
                                  /\ sm_donations[donations[open[j]].id].state = "posted"}},
                          FALSE)]
    /\ UNCHANGED sm_vars
    /\ UNCHANGED app_vars

\* lines 120-133 for the next listed donation, or line 140 after the last
MrChoose(t) ==
    /\ last.runs[t].pc = "choose"
    /\ LET r == last.runs[t]
       IN IF r.k > Len(r.open)
          THEN last' = [last EXCEPT !.runs[t] = [r EXCEPT !.pc = "idle",
                                                          !.outcome = "ok"]]
          ELSE LET d == donations[r.open[r.k]]
                   cands == IF d.location = NoLocation THEN {}
                            ELSE Candidates(d, recipients, r.max_search_km)
               IN IF d.location # NoLocation /\ NoCoordinates(d, recipients)
                  THEN last' = [last EXCEPT !.runs[t] =
                                    [r EXCEPT !.pc = "idle", !.outcome = "KeyError"]]
                  ELSE IF cands = {}
                  THEN last' = [last EXCEPT !.runs[t].k = r.k + 1]
                  ELSE last' = [last EXCEPT !.runs[t] =
                                    [r EXCEPT !.pc = "assign",
                                              !.chosen = Chosen(d, recipients, cands)]]
    /\ UNCHANGED app_vars
    /\ UNCHANGED sm_vars

\* line 134: d.matched_recipient_id = chosen.id
MrAssign(t) ==
    /\ last.runs[t].pc = "assign"
    /\ LET r == last.runs[t]
       IN /\ donations' = [donations EXCEPT
                              ![r.open[r.k]].matched_recipient_id =
                                  recipients[r.chosen].id]
          /\ last' = [last EXCEPT !.runs[t].pc = "transition"]
    /\ UNCHANGED <<users, recipients, pickups, audit_logs>>
    /\ UNCHANGED sm_vars

\* line 135 calls transition_state(d.id, "matched", actor_user_id=None,
\* notes="auto-match"); its lines 91-94: d = repo.get_donation(donation_id);
\* old_state = d.state; the exception ends the run
MrTsRead(t) ==
    /\ last.runs[t].pc = "transition"
    /\ LET r == last.runs[t]
           id == donations[r.open[r.k]].id
       IN last' = [last EXCEPT !.runs[t] =
                      IF id \notin DOMAIN sm_donations
                      THEN [r EXCEPT !.pc = "idle", !.outcome = "NotFound"]
                      ELSE [r EXCEPT !.pc = "ts_check",
                                     !.old_state = sm_donations[id].state]]
    /\ UNCHANGED sm_vars
    /\ UNCHANGED app_vars

\* lines 95, 106-108 of that call: the test for the idempotent case and the
\* table; in the idempotent case the donation was no longer posted when the
\* run came to advance it
MrTsCheck(t) ==
    /\ last.runs[t].pc = "ts_check"
    /\ LET r == last.runs[t]
           id == donations[r.open[r.k]].id
       IN last' = [last EXCEPT !.runs[t] =
                      IF r.old_state = "matched"
                      THEN [r EXCEPT !.pc = "ts_append",
                                     !.stale = id \in r.listed_posted]
                      ELSE IF "matched" \notin ALLOWED_TRANSITIONS[r.old_state]
                      THEN [r EXCEPT !.pc = "idle", !.outcome = "InvalidTransition"]
                      ELSE [r EXCEPT !.pc = "ts_write"]]
    /\ UNCHANGED sm_vars
    /\ UNCHANGED app_vars

\* lines 109-110 of that call: d.state = new_state; repo.update_donation(d),
\* whatever state the donation is in by now
MrTsWrite(t) ==
    /\ last.runs[t].pc = "ts_write"
    /\ LET r == last.runs[t]
           id == donations[r.open[r.k]].id
       IN /\ sm_donations' = [sm_donations EXCEPT ![id].state = "matched"]
          /\ last' = [last EXCEPT !.runs[t] =
                         [r EXCEPT !.pc = "ts_append",
                                   !.stale = /\ id \in r.listed_posted
                                             /\ sm_donations[id].state # "posted"]]
    /\ UNCHANGED <<sm_users, sm_audit_logs>>
    /\ UNCHANGED app_vars

\* lines 96-105 and 111-120 of that call: the entry is built from old_state
\* as read and appended
MrTsAppend(t) ==
    /\ last.runs[t].pc = "ts_append"
    /\ LET r == last.runs[t]
           id == donations[r.open[r.k]].id
       IN /\ sm_audit_logs' =
                add_audit_log(sm_audit_logs,
                    AuditLogEntry(id, None, actor_role(sm_users, None),
                                  r.old_state, "matched", "auto-match"))
          /\ last' = [last EXCEPT !.runs[t].pc = "update_donation"]
    /\ UNCHANGED <<sm_donations, sm_users>>
    /\ UNCHANGED app_vars

\* line 136: repo.update_donation(d) stores the listed object, which the
\* application's repository holds already, under its identifier
MrUpdateDonation(t) ==
    /\ last.runs[t].pc = "update_donation"
    /\ LET r == last.runs[t]
       IN /\ donations' = DictSet(donations, donations[r.open[r.k]])
          /\ last' = [last EXCEPT !.runs[t].pc = "decrement"]
    /\ UNCHANGED <<users, recipients, pickups, audit_logs>>
    /\ UNCHANGED sm_vars

\* line 137, chosen.capacity_kg -= need: the attribute is loaded
MrDecrement(t) ==
    /\ last.runs[t].pc = "decrement"
    /\ LET r == last.runs[t]
       IN last' = [last EXCEPT !.runs[t] =
                      [r EXCEPT !.pc = "store",
                                !.capacity = recipients[r.chosen].capacity_kg]]
    /\ UNCHANGED app_vars
    /\ UNCHANGED sm_vars

\* line 137, chosen.capacity_kg -= need: the difference is stored
MrStore(t) ==
    /\ last.runs[t].pc = "store"
    /\ LET r == last.runs[t]
           d == donations[r.open[r.k]]
       IN /\ recipients' = [recipients EXCEPT
                               ![r.chosen].capacity_kg = r.capacity - d.total_weight_kg]
          /\ last' = [last EXCEPT !.runs[t].pc = "update_recipient",
                                  !.deducted = Append(last.deducted,
                                                      <<d.id, recipients[r.chosen].id>>)]
    /\ UNCHANGED <<users, donations, pickups, audit_logs>>
    /\ UNCHANGED sm_vars

\* line 138: repo.update_recipient(chosen) stores the chosen object, which
\* the repository holds already, under its identifier
MrUpdateRecipient(t) ==
    /\ last.runs[t].pc = "update_recipient"
    /\ LET r == last.runs[t]
       IN /\ recipients' = DictSet(recipients, recipients[r.chosen])
          /\ last' = [last EXCEPT !.runs[t].pc = "report"]
    /\ UNCHANGED <<users, donations, pickups, audit_logs>>
    /\ UNCHANGED sm_vars

\* line 139: assigned.append((d.id, chosen.id)), and on to the next donation
MrReport(t) ==
    /\ last.runs[t].pc = "report"
    /\ LET r == last.runs[t]
           d == donations[r.open[r.k]]
       IN last' = [last EXCEPT !.runs[t] =
                      [r EXCEPT !.pc = "choose", !.k = r.k + 1,
                                !.chosen = None, !.stale = FALSE,
                                !.old_state = None, !.capacity = 0,
                                !.assigned = Append(r.assigned,
                                                    <<d.id, recipients[r.chosen].id>>)]]
    /\ UNCHANGED app_vars
    /\ UNCHANGED sm_vars

\* the runs step by step, and beside them the transition request of another
\* actor, itself in the steps of transition_state
MatchRaceNext ==
    \/ \E t \in Threads :
          \/ \E km \in RaceRadii : MrList(t, km)
          \/ MrChoose(t)
          \/ MrAssign(t)
          \/ MrTsRead(t)
          \/ MrTsCheck(t)
          \/ MrTsWrite(t)
          \/ MrTsAppend(t)
          \/ MrUpdateDonation(t)
          \/ MrDecrement(t)
          \/ MrStore(t)
          \/ MrUpdateRecipient(t)
          \/ MrReport(t)
    \/ \E t \in RaceActors :
          \/ \E id \in DonationIds, s \in RaceTargets : TsRead(t, id, s)
          \/ TsCheck(t)
          \/ TsWrite(t)
          \/ TsAppend(t)

SpecMatchRace == InitMatchRace /\ [][MatchRaceNext]_vars

\* the statements of a run from the load of line 137 to the report of line 139
Deducting == {"decrement", "store", "update_recipient", "report"}

\* C25: when another actor has moved a donation out of posted between a
\* matching run's listing it as open and the run's advancing it, the run
\* does not go on to decrement the chosen recipient's capacity for it nor to
\* report the pair; no donation's weight is deducted more than once.
C25_DeductedOnce ==
    /\ \A t \in Threads : last.runs[t].pc \in Deducting => ~last.runs[t].stale
    /\ \A id \in DonationIds :
          Cardinality({k \in 1..Len(last.deducted) : last.deducted[k][1] = id}) <= 1

----------------------------------------------------------------------------
(* Accounting and references across matching, pickup planning and
   transition requests *)

\* the sum of the weights of the first k donations of dons that name rid as
\* their matched recipient
RECURSIVE MatchedWeight(_, _, _)
MatchedWeight(dons, rid, k) ==
    IF k = 0 THEN 0
    ELSE MatchedWeight(dons, rid, k - 1)
         + (IF dons[k].matched_recipient_id = rid THEN dons[k].total_weight_kg ELSE 0)

\* the step is a matching run or a transition request
AccountedStep == last'.op \in {"greedy_match_local", "transition_state"}

\* C31: for every recipient, the capacity it had before the first matching
\* run less its capacity now is the sum of the weights of the donations whose
\* matched_recipient_id names it, whatever their state: every matching run
\* and every transition request takes from a recipient's capacity exactly the
\* weight by which the donations naming it have grown.
C31_CapacityAccounting ==
    [][AccountedStep =>
         \A i \in 1..Len(recipients) :
            recipients[i].capacity_kg - recipients'[i].capacity_kg =
                MatchedWeight(donations', recipients[i].id, Len(donations'))
                - MatchedWeight(donations, recipients[i].id, Len(donations))
    ]_vars

\* C32: a pickup planning request that fails, for whichever referenced
\* donation, stores no Pickup and leaves every donation's state and pickup
\* reference and every audit log as they were.
C32_PickupAllOrNothing ==
    [][(last'.op = "plan_pickup" /\ last'.outcome # "ok") =>
         /\ pickups' = pickups
         /\ donations' = donations
         /\ sm_donations' = sm_donations
         /\ sm_audit_logs' = sm_audit_logs
         /\ audit_logs' = audit_logs
    ]_vars

\* the states a donation is in after it was matched, and those between the
\* planning of its pickup and its delivery
MatchedOnward == {"matched", "pickup_scheduled", "in_transit", "delivered"}
PickupUnderWay == {"pickup_scheduled", "in_transit"}

\* the references the donation d carries name what is stored
ReferencesStored(d) ==
    /\ d.state \in MatchedOnward => d.matched_recipient_id \in Keys(recipients)
    /\ d.state \in PickupUnderWay =>
          \E p \in 1..Len(pickups) :
             /\ pickups[p].id = d.pickup_id
             /\ \E k \in 1..Len(pickups[p].donation_ids) :
                   pickups[p].donation_ids[k] = d.id

\* C33: in every reachable state, in either repository, a donation that is
\* matched, pickup_scheduled, in_transit or delivered names a stored
\* recipient as its matched recipient, and a donation that is
\* pickup_scheduled or in_transit names a stored Pickup that lists it.
C33_ReferencesStored ==
    /\ \A id \in DOMAIN sm_donations : ReferencesStored(sm_donations[id])
    /\ \A j \in 1..Len(donations) : ReferencesStored(donations[j])

====
